---- MODULE Spec2Model ----
(***************************************************************************)
(* A model of two parts of ent (facebookincubator/ent):                    *)
(*                                                                         *)
(*  - the generated query builder ItemQuery (entc/integration/ent,         *)
(*    item_query.go): its accumulator (predicates, order, limit, offset,   *)
(*    unique, intermediate query), its terminal operations and the two     *)
(*    queries they compile to (a SQL selector, a Gremlin traversal);       *)
(*  - the code generator's graph (entc/gen/graph.go): NewGraph with        *)
(*    addNode, addEdges, resolve, addIndexes, and Tables.                  *)
(*                                                                         *)
(* Go values are modelled as follows.  A pointer is a sequence: <<>> is    *)
(* nil and <<v>> points to v.  A slice is a header [arr, len] into `heap`, *)
(* the backing arrays, so that append writes in place when the capacity    *)
(* allows it, as in Go.  The intermediate *sql.Selector of a builder is an *)
(* address into `sels`, because sqlQuery changes it in place.              *)
(***************************************************************************)
EXTENDS Integers, Sequences, FiniteSets, TLC

VARIABLES
    dialect,   \* what iq.driver.Dialect() returns
    table,     \* the stored Item rows / vertices, in storage order
    joined,    \* the rows / traversers the intermediate query yields
    heap,      \* backing arrays of the builders' slices
    sels,      \* the *sql.Selector objects builders point to
    bld,       \* the builders: "q", and "c" once q was cloned
    ret,       \* what the last terminal operation returned and sent
    calls,     \* number of builder calls made so far
    schemas,   \* NewGraph's input: the loaded schemas, in order
    nodes,     \* Graph.Nodes
    pc,        \* the phase NewGraph is in
    cursor,    \* index of the next schema / node of the running phase
    gerr,      \* the error NewGraph returns ("" is nil)
    derive,    \* Graph.Tables: its position, `all`, and what its calls returned
    mig,       \* the database Schema.Create migrates: type table, counters, ids
    held       \* the ItemSelect or ItemGroupBy the client holds

qvars == <<dialect, table, joined, heap, sels, bld, ret, calls, mig, held>>
ovars == <<schemas, nodes, pc, cursor, gerr, derive, mig>>
gvars == <<schemas, nodes, pc, cursor, gerr, derive, mig, held>>
vars == <<dialect, table, joined, heap, sels, bld, ret, calls,
          schemas, nodes, pc, cursor, gerr, derive, mig, held>>

----------------------------------------------------------------------------
(* Bounds of the model.                                                    *)

\* Longest sequence of rows the intermediate query yields.
MaxRows == 3
\* Most builder calls in one run of the query specification.
MaxCalls == 3
\* Most calls on a builder and its clone in one run of the specification
\* of Clone.
MaxCloneCalls == 5

\* math.MaxInt32, the limit that stands in for "no limit" beside an offset.
MaxInt32 == 2147483647

\* Identifiers of the stored items.
Ids == {1, 2}
\* The arguments the model passes to Limit and to Offset.
LimitVals == {1, 2}
OffsetVals == {1}

----------------------------------------------------------------------------
(* Generic helpers.                                                        *)

Min(a, b) == IF a < b THEN a ELSE b
Max(a, b) == IF a > b THEN a ELSE b

\* Sequences over S of length at most n.
SeqsUpTo(S, n) == UNION {[1..k -> S] : k \in 0..n}

\* The elements of a sequence.
Range(s) == {s[i] : i \in DOMAIN s}

\* The first n elements, and what is left after the first n.
Take(s, n) == SubSeq(s, 1, Min(n, Len(s)))
Drop(s, n) == SubSeq(s, Min(n, Len(s)) + 1, Len(s))

\* Each element once, at the place of its first occurrence.
RECURSIVE Dedup(_)
Dedup(s) ==
    IF s = <<>> THEN <<>>
    ELSE LET last == s[Len(s)]
             init == Dedup(SubSeq(s, 1, Len(s) - 1))
         IN  IF last \in Range(init) THEN init ELSE Append(init, last)

NoDuplicates(s) == \A i, j \in DOMAIN s : i # j => s[i] # s[j]

----------------------------------------------------------------------------
(* Rows, predicates and orderings of the Item type.  An Item has the       *)
(* single column "id" (ItemsColumns), so a row is [id |-> n].              *)

FieldID == "id"

Row(n) == [id |-> n]

\* predicate.Item values: the generated item.IDEQ, item.IDNEQ, item.IDGT.
IDEQ(n) == [op |-> "IDEQ", id |-> n]
IDNEQ(n) == [op |-> "IDNEQ", id |-> n]
IDGT(n) == [op |-> "IDGT", id |-> n]

\* Whether row r satisfies predicate p (the WHERE condition / has-step
\* the predicate adds).
Sat(p, r) ==
    CASE p.op = "IDEQ" -> r.id = p.id
      [] p.op = "IDNEQ" -> r.id # p.id
      [] p.op = "IDGT" -> r.id > p.id

\* ent.Asc(field) and ent.Desc(field).
Asc(f) == [field |-> f, dir |-> "asc"]
Desc(f) == [field |-> f, dir |-> "desc"]

\* The predicates and orderings the model passes to Where and Order.
PredInputs == {IDNEQ(1), IDEQ(1)}
OrderInputs == {Asc(FieldID), Desc(FieldID)}
\* The argument lists the model passes to the variadic Where of a builder
\* and its clone: one predicate or two.  A slice of two predicates that
\* gets a third has room for a fourth.
WhereLists == {<<IDNEQ(1)>>, <<IDEQ(2)>>, <<IDNEQ(1), IDEQ(2)>>}
\* The argument lists the model passes to the variadic Order of a builder
\* and its clone.
OrderLists == {<<Desc(FieldID)>>, <<Asc(FieldID), Desc(FieldID)>>}

\* Whether row a sorts strictly before row b under the list of order
\* terms os (ORDER BY o1, o2, ... / order().by(o1).by(o2)...).
RECURSIVE Before(_, _, _)
Before(a, b, os) ==
    IF os = <<>> THEN FALSE
    ELSE LET o == Head(os)
             x == a[o.field]
             y == b[o.field]
         IN  IF x = y THEN Before(a, b, Tail(os))
             ELSE IF o.dir = "asc" THEN x < y ELSE x > y

\* Stable insertion of row r into the sorted sequence s.
RECURSIVE InsertSorted(_, _, _)
InsertSorted(r, s, os) ==
    IF s = <<>> THEN <<r>>
    ELSE IF Before(r, Head(s), os) THEN <<r>> \o s
    ELSE <<Head(s)>> \o InsertSorted(r, Tail(s), os)

\* Stable sort of s by the order terms os; s itself when os is empty.
RECURSIVE SortRows(_, _)
SortRows(s, os) ==
    IF s = <<>> THEN <<>>
    ELSE InsertSorted(s[Len(s)], SortRows(SubSeq(s, 1, Len(s) - 1), os), os)

\* The rows among s that satisfy every predicate of ps.
Matching(s, ps) == SelectSeq(s, LAMBDA r : \A i \in DOMAIN ps : Sat(ps[i], r))

----------------------------------------------------------------------------
(* Go pointers and slices.                                                 *)

Nil == <<>>
Ptr(v) == <<v>>
Deref(p) == p[1]

\* What an unused slot of a backing array holds.
ZeroVal == [zero |-> TRUE]

\* The nil slice; an empty slice literal has no backing array either.
NilSlice == [arr |-> 0, len |-> 0]

Cap(h, s) == IF s.arr = 0 THEN 0 ELSE Len(h[s.arr])

\* The elements of slice s, read through heap h.
Elems(h, s) == [i \in 1..s.len |-> h[s.arr][i]]

\* The sizes of a func value (predicate.Item, Order) and of a string, in
\* bytes, on the 64-bit build of the image.
FuncSize == 8
StringSize == 16

\* The 66 size classes of the allocator of go1.12, the toolchain of the
\* image (_NumSizeClasses = 67 with class 0), and the page size larger
\* allocations are rounded to.
SizeClasses ==
    <<8, 16, 32, 48, 64, 80, 96, 112, 128, 144, 160, 176, 192, 208, 224, 240,
      256, 288, 320, 352, 384, 416, 448, 480, 512, 576, 640, 704, 768, 896,
      1024, 1152, 1280, 1408, 1536, 1792, 2048, 2304, 2688, 3072, 3200, 3456,
      4096, 4864, 5376, 6144, 6528, 6784, 6912, 8192, 9472, 9728, 10240,
      10880, 12288, 13568, 14336, 16384, 18432, 19072, 20480, 21760, 24576,
      27264, 28672, 32768>>
PageSize == 8192

\* runtime.roundupsize: the size of the block that holds n bytes; class 0
\* of class_to_size is the block of 0 bytes.
roundupsize(n) ==
    IF n = 0 THEN 0
    ELSE IF n <= SizeClasses[Len(SizeClasses)]
    THEN SizeClasses[CHOOSE i \in DOMAIN SizeClasses :
                        /\ n <= SizeClasses[i]
                        /\ \A j \in 1..(i - 1) : SizeClasses[j] < n]
    ELSE ((n + PageSize - 1) \div PageSize) * PageSize

\* growslice, the capacity grown by quarters from c until it holds need.
RECURSIVE GrowByQuarters(_, _)
GrowByQuarters(c, need) ==
    IF c >= need THEN c ELSE GrowByQuarters(c + c \div 4, need)

\* runtime.growslice: the capacity of the array allocated for need
\* elements of `size` bytes when the slice has length len and capacity cap.
growslice(len, cap, need, size) ==
    LET newcap == IF need > 2 * cap THEN need
                  ELSE IF len < 1024 THEN 2 * cap
                  ELSE GrowByQuarters(cap, need)
    IN  roundupsize(newcap * size) \div size

\* Go's append(s, xs...) for elements of `size` bytes: [heap, slice].  With
\* room in the backing array the new elements are written in place, past
\* s.len, and every slice sharing the array sees them; otherwise a new
\* array of the capacity growslice gives is allocated and the old one is
\* left as it is.
GoAppend(h, s, xs, size) ==
    LET need == s.len + Len(xs)
    IN  IF xs = <<>> THEN [heap |-> h, slice |-> s]
        ELSE IF need <= Cap(h, s)
        THEN [heap |-> [h EXCEPT ![s.arr] =
                          [i \in 1..Len(@) |->
                             IF i > s.len /\ i <= need THEN xs[i - s.len] ELSE @[i]]],
              slice |-> [arr |-> s.arr, len |-> need]]
        ELSE LET newcap == growslice(s.len, Cap(h, s), need, size)
                 data == [i \in 1..newcap |->
                            IF i <= s.len THEN h[s.arr][i]
                            ELSE IF i <= need THEN xs[i - s.len]
                            ELSE ZeroVal]
             IN  [heap |-> Append(h, data),
                  slice |-> [arr |-> Len(h) + 1, len |-> need]]

----------------------------------------------------------------------------
(* dialect/sql: the Selector and what the database answers.                *)

\* item.Columns: the columns of the items table.
ItemColumns == <<FieldID>>

\* The name of the column an aggregate function of a GroupBy selects.
CountLabel == "count"

\* The alias ItemSelect.sqlQuery gives the selector it reads from.
ItemView == "item_view"

\* sql.Select(t1.Columns(item.Columns...)...).From(t1): the items table;
\* the selector of an edge query selects from a join instead.  The select
\* list is `columns` followed by the aggregate functions `aggr`, or
\* COUNT(DISTINCT count) when `count` is set.  `as` is the alias of the
\* selector, empty until Selector.As sets it.
NewSelector(from) ==
    [from |-> from, as |-> "", distinct |-> FALSE, columns |-> ItemColumns,
     aggr |-> <<>>, count |-> <<>>, where |-> <<>>,
     group |-> <<>>, order |-> <<>>, limit |-> Nil, offset |-> Nil]

\* Selector.As(alias): s.as = alias, on the selector itself.
SelAs(s, alias) == [s EXCEPT !.as = alias]
\* Selector.C(column): the column qualified by the alias of the selector
\* when it has one, by its table otherwise (a name of the table itself).
SelC(s, column) == IF s.as # "" THEN s.as \o "." \o column ELSE column
\* Selector.Columns(columns...): Selector.C of every column.
SelColumns(s, columns) == [i \in DOMAIN columns |-> SelC(s, columns[i])]

\* Selector.Select(columns...): the select list is replaced by the plain
\* columns and the aggregate functions fns.
SelSelect(s, columns, fns) ==
    [s EXCEPT !.columns = columns, !.aggr = fns, !.count = <<>>]
\* Selector.Where(p): AND the condition to the WHERE clause.
SelWhere(s, p) == [s EXCEPT !.where = Append(@, p)]
\* A predicate.Item applied to selector s: s.Where(sql.EQ(s.C(FieldID), id))
\* and the like; the condition names the column as Selector.C gives it.
ApplyPredSQL(s, p) ==
    SelWhere(s, [op |-> p.op, id |-> p.id, col |-> SelC(s, FieldID)])
\* Selector.OrderBy(o).
SelOrderBy(s, o) == [s EXCEPT !.order = Append(@, o)]
\* Selector.Offset(n) and Selector.Limit(n).
SelOffset(s, n) == [s EXCEPT !.offset = Ptr(n)]
SelLimit(s, n) == [s EXCEPT !.limit = Ptr(n)]
\* Selector.Distinct(): SELECT DISTINCT.
SelDistinct(s) == [s EXCEPT !.distinct = TRUE]
\* Selector.Count(sql.Distinct(columns...)): the select list is replaced by
\* COUNT(DISTINCT columns).
SelCount(s, columns) ==
    [s EXCEPT !.count = columns, !.columns = <<>>, !.aggr = <<>>]
\* Selector.GroupBy(columns...): the columns are added to the GROUP BY.
SelGroupBy(s, columns) == [s EXCEPT !.group = @ \o columns]

\* The rows the FROM clause / the traversal source yields.
SourceRows(from) ==
    LET ids == IF from = "join" THEN joined ELSE table
    IN  [i \in DOMAIN ids |-> Row(ids[i])]

\* LIMIT l OFFSET o applied to the rows rs.
Window(rs, limit, offset) ==
    LET rest == IF offset = Nil THEN rs ELSE Drop(rs, Deref(offset))
    IN  IF limit = Nil THEN rest ELSE Take(rest, Deref(limit))

\* The first row of every group of the rows rs grouped by the columns cs,
\* in the order the groups start.
GroupHeads(rs, cs) ==
    LET key(r) == [c \in Range(cs) |-> r[c]]
    IN  SelectSeq([i \in DOMAIN rs |-> [at |-> i, row |-> rs[i]]],
                  LAMBDA x : \A j \in 1..(x.at - 1) : key(rs[j]) # key(x.row))

\* The columns the rows of selector s have.
OutColumns(s) ==
    IF s.count # <<>> THEN {CountLabel}
    ELSE Range(s.columns) \cup (IF s.aggr # <<>> THEN {CountLabel} ELSE {})

\* The database rejects selector s: its select list, its GROUP BY or its
\* WHERE clause names a column the items table does not have, as a column
\* qualified by an alias the query does not define is.
SelRejected(s) ==
    ~(Range(s.columns) \cup Range(s.count) \cup Range(s.group)
          \cup {s.where[i].col : i \in DOMAIN s.where}
          \subseteq Range(ItemColumns))

\* The rows the database returns for selector s: WHERE, then GROUP BY (one
\* row per group), then the select list (an aggregate gives one row, one
\* per group under GROUP BY; DISTINCT drops repeated rows), then ORDER BY,
\* then LIMIT and OFFSET.
RunSelect(s) ==
    LET hit == Matching(SourceRows(s.from), s.where)
        key(r, cs) == [c \in Range(cs) |-> r[c]]
        heads == GroupHeads(hit, s.group)
        rows == IF s.group = <<>> THEN hit
                ELSE [i \in DOMAIN heads |-> heads[i].row]
        members(r) == {j \in DOMAIN hit : key(hit[j], s.group) = key(r, s.group)}
        out(r) == [c \in OutColumns(s) |->
                      IF c = CountLabel THEN Cardinality(members(r)) ELSE r[c]]
        listed == [i \in DOMAIN rows |-> out(rows[i])]
    IN  IF s.count # <<>> /\ s.group = <<>>
        THEN LET keys == {key(r, s.count) : r \in Range(hit)}
             IN  Window(<<[count |-> Cardinality(keys)]>>, s.limit, s.offset)
        ELSE IF s.count # <<>>
        THEN Window([i \in DOMAIN rows |->
                        [count |-> Cardinality(
                            {key(r, s.count) : r \in
                                {q \in Range(hit) :
                                    key(q, s.group) = key(rows[i], s.group)}})]],
                    s.limit, s.offset)
        ELSE Window(SortRows(IF s.distinct THEN Dedup(listed) ELSE listed, s.order),
                    s.limit, s.offset)

\* sql.ScanSlice: the values of the rows rs read into a slice; a slice of
\* plain values when one column is read, of structs otherwise.
ScanSlice(rs, columns) ==
    IF Len(columns) = 1 THEN [i \in DOMAIN rs |-> rs[i][columns[1]]]
    ELSE [i \in DOMAIN rs |-> [c \in Range(columns) |-> rs[i][c]]]

\* ItemSelect.sqlQuery: SELECT fields FROM (selector) AS item_view, and the
\* values sql.ScanSlice reads from its rows.
RunScanSQL(fields, s) == ScanSlice(RunSelect(s), fields)

\* The database rejects SELECT fields FROM (selector) AS item_view: the
\* selector is rejected or its rows lack one of the fields.
ScanRejected(fields, s) ==
    SelRejected(s) \/ ~(Range(fields) \subseteq OutColumns(s))

----------------------------------------------------------------------------
(* dialect/gremlin: the traversal and what the graph server answers.       *)

Step(name, args) == [step |-> name, args |-> args]

\* g.V().HasLabel(item.Label); the traversal of an edge query starts from
\* the vertices that query reaches instead, one traverser per path.
NewTraversal(from) ==
    IF from = "join" THEN <<Step("join", <<>>)>>
    ELSE <<Step("V", <<>>), Step("hasLabel", <<"item">>)>>

\* A predicate adds a has-step; Order() adds order(), and an ordering adds
\* a by() to that order step.
TravHas(t, p) == Append(t, Step("has", <<p>>))
TravOrder(t) == Append(t, Step("order", <<>>))
TravBy(t, o) == [t EXCEPT ![Len(t)].args = Append(@, o)]
TravRange(t, lo, hi) == Append(t, Step("range", <<lo, hi>>))
TravLimit(t, n) == Append(t, Step("limit", <<n>>))
TravDedup(t) == Append(t, Step("dedup", <<>>))
TravCount(t) == Append(t, Step("count", <<>>))
TravHasNext(t) == Append(t, Step("hasNext", <<>>))
TravID(t) == Append(t, Step("id", <<>>))
TravValues(t, fields) == Append(t, Step("values", fields))
\* ValueMap(true) gives every vertex as a map with its id; ValueMap(fields...)
\* gives the map of the named properties.
TravValueMap(t, args) == Append(t, Step("valueMap", args))
\* Group().By(__.Values(fields...).Fold())
\*        .By(__.Fold().Match(trs...).Select(names...))
\*        .Select(dsl.Values).Next(), names being those of the aggregate
\* functions followed by the fields.
TravGroup(t, fields, fns) ==
    t \o <<Step("group", <<fields, fns \o fields>>),
           Step("select", <<"values">>), Step("next", <<>>)>>

\* Whether vertex r has the property f.  The id of a vertex is not one of
\* its properties.
HasProperty(r, f) == f \in DOMAIN r /\ f # FieldID

\* The map of the properties fs of vertex r.
Properties(r, fs) == [f \in {x \in fs : HasProperty(r, x)} |-> r[f]]

\* One step applied to the traversers ts.  values(f) yields the property
\* of the vertices that have it; group() takes the vertices that have the
\* grouping properties, one map of the selected names per group.
RunStep(st, ts) ==
    CASE st.step = "V" -> SourceRows("table")
      [] st.step = "join" -> SourceRows("join")
      [] st.step = "hasLabel" -> ts
      [] st.step = "has" -> Matching(ts, st.args)
      [] st.step = "order" -> SortRows(ts, st.args)
      [] st.step = "range" -> SubSeq(ts, st.args[1] + 1, Min(st.args[2], Len(ts)))
      [] st.step = "limit" -> Take(ts, st.args[1])
      [] st.step = "dedup" -> Dedup(ts)
      [] st.step = "count" -> <<Len(ts)>>
      [] st.step = "hasNext" -> <<ts # <<>> >>
      [] st.step = "id" -> [i \in DOMAIN ts |-> ts[i].id]
      [] st.step = "values" ->
            LET with == SelectSeq(ts, LAMBDA r : HasProperty(r, st.args[1]))
            IN  [i \in DOMAIN with |-> with[i][st.args[1]]]
      [] st.step = "valueMap" ->
            IF st.args = <<"true">> THEN ts
            ELSE [i \in DOMAIN ts |-> Properties(ts[i], Range(st.args))]
      [] st.step = "group" ->
            LET with == SelectSeq(ts, LAMBDA r :
                            \A f \in Range(st.args[1]) : HasProperty(r, f))
                heads == GroupHeads(with, st.args[1])
                size(r) == Cardinality({j \in DOMAIN with :
                               \A f \in Range(st.args[1]) : with[j][f] = r[f]})
            IN  [i \in DOMAIN heads |->
                    [c \in Range(st.args[2]) |->
                        IF c = CountLabel THEN size(heads[i].row)
                        ELSE heads[i].row[c]]]
      [] st.step = "select" -> ts
      [] st.step = "next" -> ts

\* The traversers the server returns for traversal t.
RECURSIVE RunTraversal(_)
RunTraversal(t) ==
    IF t = <<>> THEN <<>>
    ELSE RunStep(t[Len(t)], RunTraversal(SubSeq(t, 1, Len(t) - 1)))

\* The steps that pass vertices on, and the steps that take vertices only.
VertexSteps == {"V", "join", "hasLabel", "has", "order", "range", "limit", "dedup"}
ElementSteps == {"hasLabel", "has", "id", "values", "valueMap"}

\* The server rejects traversal t: a step follows next(), which ends the
\* traversal, or a step that takes vertices is given something else.
TravRejected(t) ==
    LET bad == {i \in 2..Len(t) :
                  \/ t[i - 1].step = "next"
                  \/ /\ t[i].step \in ElementSteps
                     /\ \E j \in 1..(i - 1) : t[j].step \notin VertexSteps}
    IN  /\ bad # {}
        /\ LET m == CHOOSE i \in bad : \A j \in bad : i <= j
           IN  t[m - 1].step = "next" \/ RunTraversal(SubSeq(t, 1, m - 1)) # <<>>

----------------------------------------------------------------------------
(* ItemQuery: the accumulator and its fluent calls.                        *)

\* driver.Dialect() values: the two SQL dialects, Gremlin, and one the
\* builder has no compiled path for.
IsSQL(d) == d \in {"mysql", "sqlite3"}
IsGremlin(d) == d = "gremlin"
Dialects == {"mysql", "gremlin", "neptune"}

\* Error values.  ErrDriver is the error of a driver call: the connection
\* failed, or the database or graph server rejected the query.
ErrNotFound == "ent: item not found"
ErrNotSingular == "ent: item not singular"
ErrDriver == "driver: bad connection"
ErrNoRows == "ent: no rows found"

\* The ItemQuery struct.  sql is 0 (nil) or the address of a selector in
\* sels; gremlin is Nil or points to a traversal.
NewItemQuery(unique, sql, gremlin) ==
    [limit |-> Nil, offset |-> Nil, order |-> NilSlice, unique |-> unique,
     predicates |-> NilSlice, sql |-> sql, gremlin |-> gremlin]

\* Where: iq.predicates = append(iq.predicates, ps...).  [heap, iq]
Where(iq, h, ps) ==
    LET a == GoAppend(h, iq.predicates, ps, FuncSize)
    IN  [heap |-> a.heap, iq |-> [iq EXCEPT !.predicates = a.slice]]

\* Limit: iq.limit = &limit.
Limit(iq, limit) == [iq EXCEPT !.limit = Ptr(limit)]

\* Offset: iq.offset = &offset.
Offset(iq, offset) == [iq EXCEPT !.offset = Ptr(offset)]

\* Order: iq.order = append(iq.order, o...).  [heap, iq]
Order(iq, h, os) ==
    LET a == GoAppend(h, iq.order, os, FuncSize)
    IN  [heap |-> a.heap, iq |-> [iq EXCEPT !.order = a.slice]]

\* Selector.Clone: a copy of the selector; what is done to either from
\* then on leaves the other as it is.
SelClone(s) == s

\* Clone, had it copied the struct only: the clone keeps the slices of the
\* original, backing arrays included.
CloneShallow(iq, h, S) ==
    [heap |-> h,
     sels |-> IF iq.sql = 0 THEN S ELSE Append(S, SelClone(S[iq.sql])),
     iq |-> [limit |-> iq.limit, offset |-> iq.offset,
             order |-> iq.order, unique |-> iq.unique,
             predicates |-> iq.predicates,
             sql |-> IF iq.sql = 0 THEN 0 ELSE Len(S) + 1,
             gremlin |-> iq.gremlin]]

\* Clone: a new ItemQuery with the same limit and offset pointers, fresh
\* copies of the three slices, and clones of the intermediate queries.
\* [heap, sels, iq]
Clone(iq, h, S) ==
    LET o == GoAppend(h, NilSlice, Elems(h, iq.order), FuncSize)
        u == GoAppend(o.heap, NilSlice, Elems(h, iq.unique), StringSize)
        p == GoAppend(u.heap, NilSlice, Elems(h, iq.predicates), FuncSize)
    IN  [heap |-> p.heap,
         sels |-> IF iq.sql = 0 THEN S ELSE Append(S, SelClone(S[iq.sql])),
         iq |-> [limit |-> iq.limit, offset |-> iq.offset,
                 order |-> o.slice, unique |-> u.slice, predicates |-> p.slice,
                 sql |-> IF iq.sql = 0 THEN 0 ELSE Len(S) + 1,
                 gremlin |-> iq.gremlin]]

\* for _, p := range iq.predicates { p(selector) }
RECURSIVE ApplyPredsSQL(_, _)
ApplyPredsSQL(s, ps) ==
    IF ps = <<>> THEN s ELSE ApplyPredsSQL(ApplyPredSQL(s, Head(ps)), Tail(ps))

\* for _, p := range iq.order { p(selector) }
RECURSIVE ApplyOrderSQL(_, _)
ApplyOrderSQL(s, os) ==
    IF os = <<>> THEN s ELSE ApplyOrderSQL(SelOrderBy(s, Head(os)), Tail(os))

\* sqlQuery, had it set the offset without the math.MaxInt32 limit.
sqlQueryBareOffset(iq, h, S) ==
    LET selector == IF iq.sql # 0 THEN SelSelect(S[iq.sql], SelColumns(S[iq.sql], ItemColumns), <<>>)
                    ELSE NewSelector("table")
        filtered == ApplyPredsSQL(selector, Elems(h, iq.predicates))
        ordered == ApplyOrderSQL(filtered, Elems(h, iq.order))
        paged == IF iq.offset # Nil
                 THEN SelOffset(ordered, Deref(iq.offset))
                 ELSE ordered
    IN  IF iq.limit # Nil THEN SelLimit(paged, Deref(iq.limit)) ELSE paged

\* sqlQuery: the selector of the query.  When the builder has an
\* intermediate selector, that object itself is changed and returned.
sqlQuery(iq, h, S) ==
    LET selector == IF iq.sql # 0 THEN SelSelect(S[iq.sql], SelColumns(S[iq.sql], ItemColumns), <<>>)
                    ELSE NewSelector("table")
        filtered == ApplyPredsSQL(selector, Elems(h, iq.predicates))
        ordered == ApplyOrderSQL(filtered, Elems(h, iq.order))
        paged == IF iq.offset # Nil
                 THEN SelLimit(SelOffset(ordered, Deref(iq.offset)), MaxInt32)
                 ELSE ordered
    IN  IF iq.limit # Nil THEN SelLimit(paged, Deref(iq.limit)) ELSE paged

\* for _, p := range iq.predicates { p(v) }
RECURSIVE ApplyPredsGremlin(_, _)
ApplyPredsGremlin(t, ps) ==
    IF ps = <<>> THEN t ELSE ApplyPredsGremlin(TravHas(t, Head(ps)), Tail(ps))

\* for _, p := range iq.order { p(v) }
RECURSIVE ApplyOrderGremlin(_, _)
ApplyOrderGremlin(t, os) ==
    IF os = <<>> THEN t ELSE ApplyOrderGremlin(TravBy(t, Head(os)), Tail(os))

\* gremlinQuery, had it added the range and limit steps before the order step.
gremlinQueryPagedFirst(iq, h) ==
    LET v == IF iq.gremlin # Nil THEN Deref(iq.gremlin) ELSE NewTraversal("table")
        filtered == ApplyPredsGremlin(v, Elems(h, iq.predicates))
        paged == CASE iq.limit # Nil /\ iq.offset # Nil ->
                        TravRange(filtered, Deref(iq.offset),
                                  Deref(iq.offset) + Deref(iq.limit))
                   [] iq.limit = Nil /\ iq.offset # Nil ->
                        TravRange(filtered, Deref(iq.offset), MaxInt32)
                   [] iq.limit # Nil /\ iq.offset = Nil ->
                        TravLimit(filtered, Deref(iq.limit))
                   [] OTHER -> filtered
        ordered == IF iq.order.len > 0
                   THEN ApplyOrderGremlin(TravOrder(paged), Elems(h, iq.order))
                   ELSE paged
    IN  IF iq.unique.len = 0 THEN TravDedup(ordered) ELSE ordered

\* gremlinQuery: the traversal of the query, built on a clone of the
\* intermediate traversal when the builder has one.
gremlinQuery(iq, h) ==
    LET v == IF iq.gremlin # Nil THEN Deref(iq.gremlin) ELSE NewTraversal("table")
        filtered == ApplyPredsGremlin(v, Elems(h, iq.predicates))
        ordered == IF iq.order.len > 0
                   THEN ApplyOrderGremlin(TravOrder(filtered), Elems(h, iq.order))
                   ELSE filtered
        paged == CASE iq.limit # Nil /\ iq.offset # Nil ->
                        TravRange(ordered, Deref(iq.offset),
                                  Deref(iq.offset) + Deref(iq.limit))
                   [] iq.limit = Nil /\ iq.offset # Nil ->
                        TravRange(ordered, Deref(iq.offset), MaxInt32)
                   [] iq.limit # Nil /\ iq.offset = Nil ->
                        TravLimit(ordered, Deref(iq.limit))
                   [] OTHER -> ordered
    IN  IF iq.unique.len = 0 THEN TravDedup(paged) ELSE paged

----------------------------------------------------------------------------
(* ItemQuery: the terminal operations.  Each returns a Result; `fail`     *)
(* says whether the driver call of this operation fails.                   *)

\* What a call returns (items, ids, n or ok, and err), the error the
\* driver gave it (drv), how many queries it sent, and the selector /
\* traversal it built.  op and b name the call and the builder.
Result ==
    [op |-> "", b |-> "", items |-> <<>>, ids |-> <<>>, n |-> 0, ok |-> FALSE,
     err |-> "", drv |-> "", sent |-> 0, sel |-> Nil, trav |-> Nil]

\* Items.FromRows: one Item per row, in the order of the rows.
FromRows(rows) == [i \in DOMAIN rows |-> [ID |-> rows[i].id]]

\* Items.FromResponse: one Item per value map, in the order of the response.
FromResponse(ts) == [i \in DOMAIN ts |-> [ID |-> ts[i].id]]

\* sqlAll, had it sent the query a second time when the driver fails.
sqlAllRetry(iq, h, S, fail) ==
    LET built == sqlQuery(iq, h, S)
        selector == IF iq.unique.len = 0 THEN SelDistinct(built) ELSE built
        sent == [Result EXCEPT !.sent = 1, !.sel = Ptr(selector)]
    IN  IF fail
        THEN [sent EXCEPT !.sent = 2, !.items = FromRows(RunSelect(selector))]
        ELSE [sent EXCEPT !.items = FromRows(RunSelect(selector))]

\* sqlAll: DISTINCT unless a unique override is set, one driver.Query, then
\* the items of the rows.
sqlAll(iq, h, S, fail) ==
    LET built == sqlQuery(iq, h, S)
        selector == IF iq.unique.len = 0 THEN SelDistinct(built) ELSE built
        sent == [Result EXCEPT !.sent = 1, !.sel = Ptr(selector)]
    IN  IF fail \/ SelRejected(selector)
        THEN [sent EXCEPT !.err = ErrDriver, !.drv = ErrDriver]
        ELSE [sent EXCEPT !.items = FromRows(RunSelect(selector))]

sqlCount(iq, h, S, fail) ==
    LET unique == IF iq.unique.len > 0 THEN Elems(h, iq.unique) ELSE <<FieldID>>
        built == sqlQuery(iq, h, S)
        selector == SelCount(built, SelColumns(built, unique))
        sent == [Result EXCEPT !.sent = 1, !.sel = Ptr(selector)]
        rows == RunSelect(selector)
    IN  IF fail \/ SelRejected(selector)
        THEN [sent EXCEPT !.err = ErrDriver, !.drv = ErrDriver]
        ELSE IF rows = <<>> THEN [sent EXCEPT !.err = ErrNoRows]
        ELSE [sent EXCEPT !.n = rows[1].count]

sqlExist(iq, h, S, fail) ==
    LET c == sqlCount(iq, h, S, fail)
    IN  IF c.err # "" THEN [c EXCEPT !.err = "ent: check existence: " \o c.err]
        ELSE [c EXCEPT !.n = 0, !.ok = c.n > 0]

gremlinAll(iq, h, fail) ==
    LET query == TravValueMap(gremlinQuery(iq, h), <<"true">>)
        sent == [Result EXCEPT !.sent = 1, !.trav = Ptr(query)]
    IN  IF fail THEN [sent EXCEPT !.err = ErrDriver, !.drv = ErrDriver]
        ELSE [sent EXCEPT !.items = FromResponse(RunTraversal(query))]

gremlinCount(iq, h, fail) ==
    LET query == TravCount(gremlinQuery(iq, h))
        sent == [Result EXCEPT !.sent = 1, !.trav = Ptr(query)]
    IN  IF fail THEN [sent EXCEPT !.err = ErrDriver, !.drv = ErrDriver]
        ELSE [sent EXCEPT !.n = RunTraversal(query)[1]]

\* gremlinExist, had it asked hasNext of the traversal without limit and offset.
gremlinExistUnpaged(iq, h, fail) ==
    LET query == TravHasNext(gremlinQuery([iq EXCEPT !.limit = Nil, !.offset = Nil], h))
        sent == [Result EXCEPT !.sent = 1, !.trav = Ptr(query)]
    IN  IF fail THEN [sent EXCEPT !.err = ErrDriver, !.drv = ErrDriver]
        ELSE [sent EXCEPT !.ok = RunTraversal(query)[1]]

gremlinExist(iq, h, fail) ==
    LET query == TravHasNext(gremlinQuery(iq, h))
        sent == [Result EXCEPT !.sent = 1, !.trav = Ptr(query)]
    IN  IF fail THEN [sent EXCEPT !.err = ErrDriver, !.drv = ErrDriver]
        ELSE [sent EXCEPT !.ok = RunTraversal(query)[1]]

\* All: dispatch on the dialect.
All(iq, h, S, fail) ==
    CASE IsSQL(dialect) -> sqlAll(iq, h, S, fail)
      [] IsGremlin(dialect) -> gremlinAll(iq, h, fail)
      [] OTHER -> [Result EXCEPT !.err = "ent: unsupported dialect"]

\* Count: dispatch on the dialect.
Count(iq, h, S, fail) ==
    CASE IsSQL(dialect) -> sqlCount(iq, h, S, fail)
      [] IsGremlin(dialect) -> gremlinCount(iq, h, fail)
      [] OTHER -> [Result EXCEPT !.err = "ent: unsupported dialect"]

\* Exist: dispatch on the dialect.
Exist(iq, h, S, fail) ==
    CASE IsSQL(dialect) -> sqlExist(iq, h, S, fail)
      [] IsGremlin(dialect) -> gremlinExist(iq, h, fail)
      [] OTHER -> [Result EXCEPT !.err = "ent: unsupported dialect"]

\* The selector sqlQuery returns and where it lives: the builder's
\* intermediate selector, changed in place, or a new one.  [sql, sels]
sqlQueryAt(iq, h, S) ==
    IF iq.sql # 0
    THEN [sql |-> iq.sql, sels |-> [S EXCEPT ![iq.sql] = sqlQuery(iq, h, S)]]
    ELSE [sql |-> Len(S) + 1, sels |-> Append(S, sqlQuery(iq, h, S))]

\* Select: an ItemSelect over the query's selector or traversal; neither
\* is set when the dialect is not supported.  [is, sels]
Select(iq, h, S, fields) ==
    LET q == sqlQueryAt(iq, h, S)
    IN  [is |-> [fields |-> fields,
                 sql |-> IF IsSQL(dialect) THEN q.sql ELSE 0,
                 gremlin |-> IF IsGremlin(dialect)
                             THEN Ptr(gremlinQuery(iq, h)) ELSE Nil],
         sels |-> IF IsSQL(dialect) THEN q.sels ELSE S]

\* ItemSelect.sqlQuery: sql.Select(is.fields...).From(is.sql.As(view)).
\* Selector.As sets the alias on is.sql itself, which is the builder's own
\* selector when the builder has one.
ItemSelect_sqlQuery(is, S) ==
    [fields |-> is.fields, from |-> SelAs(S[is.sql], ItemView)]

\* ItemSelect.sqlScan: SELECT fields FROM (is.sql) AS item_view.  The
\* result carries is.sql as the query has left it, with the alias.
ItemSelect_sqlScan(is, S, fail) ==
    LET query == ItemSelect_sqlQuery(is, S)
        sent == [Result EXCEPT !.sent = 1, !.sel = Ptr(query.from)]
    IN  IF fail \/ ScanRejected(query.fields, query.from)
        THEN [sent EXCEPT !.err = ErrDriver, !.drv = ErrDriver]
        ELSE [sent EXCEPT !.ids = RunScanSQL(query.fields, query.from)]

\* ItemSelect.gremlinScan: the id step when the one field is the id, the
\* values step when it is another field, the value map of several fields;
\* the step is added to is.gremlin itself.
ItemSelect_gremlinScan(is, fail) ==
    LET query == IF Len(is.fields) = 1
                 THEN IF is.fields[1] # FieldID
                      THEN TravValues(Deref(is.gremlin), is.fields)
                      ELSE TravID(Deref(is.gremlin))
                 ELSE TravValueMap(Deref(is.gremlin), is.fields)
        sent == [Result EXCEPT !.sent = 1, !.trav = Ptr(query)]
    IN  IF fail \/ TravRejected(query)
        THEN [sent EXCEPT !.err = ErrDriver, !.drv = ErrDriver]
        ELSE [sent EXCEPT !.ids = RunTraversal(query)]

\* ItemSelect.Scan: dispatch on the dialect.
ItemSelect_Scan(is, S, fail) ==
    CASE IsSQL(dialect) -> ItemSelect_sqlScan(is, S, fail)
      [] IsGremlin(dialect) -> ItemSelect_gremlinScan(is, fail)
      [] OTHER -> [Result EXCEPT !.err = "ItemSelect: unsupported dialect"]

\* IDs: iq.Select(item.FieldID).Scan(ctx, &ids).
IDs(iq, h, S, fail) ==
    LET s == Select(iq, h, S, <<FieldID>>)
    IN  ItemSelect_Scan(s.is, s.sels, fail)

\* First: iq.Limit(1).All, then the first item or ErrNotFound.
First(iq, h, S, fail) ==
    LET r == All(Limit(iq, 1), h, S, fail)
    IN  IF r.err # "" THEN r
        ELSE IF Len(r.items) = 0 THEN [r EXCEPT !.err = ErrNotFound]
        ELSE [r EXCEPT !.items = <<r.items[1]>>]

\* FirstID: iq.Limit(1).IDs, then the first id or ErrNotFound.
FirstID(iq, h, S, fail) ==
    LET r == IDs(Limit(iq, 1), h, S, fail)
    IN  IF r.err # "" THEN r
        ELSE IF Len(r.ids) = 0 THEN [r EXCEPT !.err = ErrNotFound]
        ELSE [r EXCEPT !.ids = <<r.ids[1]>>]

\* Only: iq.Limit(2).All, then the item when there is exactly one.
Only(iq, h, S, fail) ==
    LET r == All(Limit(iq, 2), h, S, fail)
    IN  IF r.err # "" THEN r
        ELSE CASE Len(r.items) = 1 -> r
               [] Len(r.items) = 0 -> [r EXCEPT !.err = ErrNotFound]
               [] OTHER -> [r EXCEPT !.items = <<>>, !.err = ErrNotSingular]

\* OnlyID: iq.Limit(2).IDs, then the id when there is exactly one.
OnlyID(iq, h, S, fail) ==
    LET r == IDs(Limit(iq, 2), h, S, fail)
    IN  IF r.err # "" THEN r
        ELSE CASE Len(r.ids) = 1 -> r
               [] Len(r.ids) = 0 -> [r EXCEPT !.err = ErrNotFound]
               [] OTHER -> [r EXCEPT !.ids = <<>>, !.err = ErrNotSingular]

\* GroupBy: an ItemGroupBy over the query's selector or traversal; neither
\* is set when the dialect is not supported.  [igb, sels]
GroupBy(iq, h, S, fields) ==
    LET q == sqlQueryAt(iq, h, S)
    IN  [igb |-> [fields |-> fields, fns |-> <<>>,
                  sql |-> IF IsSQL(dialect) THEN q.sql ELSE 0,
                  gremlin |-> IF IsGremlin(dialect)
                              THEN Ptr(gremlinQuery(iq, h)) ELSE Nil],
         sels |-> IF IsSQL(dialect) THEN q.sels ELSE S]

\* Aggregate: igb.fns = append(igb.fns, fns...).
Aggregate(igb, fns) == [igb EXCEPT !.fns = @ \o fns]

\* ItemGroupBy.sqlQuery: igb.sql itself, with the fields and the aggregate
\* functions as its select list and the fields added to its GROUP BY.
ItemGroupBy_sqlQuery(igb, S) ==
    SelGroupBy(SelSelect(S[igb.sql], igb.fields, igb.fns), igb.fields)

\* ItemGroupBy.sqlScan: the values sql.ScanSlice reads.
ItemGroupBy_sqlScan(igb, S, fail) ==
    LET selector == ItemGroupBy_sqlQuery(igb, S)
        sent == [Result EXCEPT !.sent = 1, !.sel = Ptr(selector)]
    IN  IF fail \/ SelRejected(selector)
        THEN [sent EXCEPT !.err = ErrDriver, !.drv = ErrDriver]
        ELSE [sent EXCEPT !.ids =
                 ScanSlice(RunSelect(selector), igb.fields \o igb.fns)]

\* ItemGroupBy.gremlinQuery: the group steps, added to igb.gremlin itself.
ItemGroupBy_gremlinQuery(igb) == TravGroup(Deref(igb.gremlin), igb.fields, igb.fns)

\* ItemGroupBy.gremlinScan: res.ReadVal for one field and no function,
\* the decoded value maps otherwise.
ItemGroupBy_gremlinScan(igb, fail) ==
    LET query == ItemGroupBy_gremlinQuery(igb)
        sent == [Result EXCEPT !.sent = 1, !.trav = Ptr(query)]
        ts == RunTraversal(query)
    IN  IF fail \/ TravRejected(query)
        THEN [sent EXCEPT !.err = ErrDriver, !.drv = ErrDriver]
        ELSE IF Len(igb.fields) + Len(igb.fns) = 1
        THEN [sent EXCEPT !.ids = [i \in DOMAIN ts |-> ts[i][igb.fields[1]]]]
        ELSE [sent EXCEPT !.ids = ts]

\* ItemGroupBy.Scan, had its default case returned nil instead of the error.
ItemGroupBy_ScanSilent(igb, S, fail) ==
    CASE IsSQL(dialect) -> ItemGroupBy_sqlScan(igb, S, fail)
      [] IsGremlin(dialect) -> ItemGroupBy_gremlinScan(igb, fail)
      [] OTHER -> Result

\* ItemGroupBy.Scan: dispatch on the dialect.
ItemGroupBy_Scan(igb, S, fail) ==
    CASE IsSQL(dialect) -> ItemGroupBy_sqlScan(igb, S, fail)
      [] IsGremlin(dialect) -> ItemGroupBy_gremlinScan(igb, fail)
      [] OTHER -> [Result EXCEPT !.err = "igb: unsupported dialect"]

----------------------------------------------------------------------------
(* The graph of the code generator: NewGraph and its four phases.          *)

\* the most edge declarations one schema of the input carries
MaxEdges == 2

\* The relation kinds of gen.Rel.
Unk == "Unk"
O2O == "O2O"
O2M == "O2M"
M2O == "M2O"
M2M == "M2M"

\* The zero gen.Relation of a new Edge.
NoRel == [type |-> Unk, table |-> "", columns |-> <<>>]

\* rules.Singularize, rules.Pluralize and snake over the names of the input.
Singularize(s) ==
    CASE s = "pets" -> "pet"
      [] s = "friends" -> "friend"
      [] s = "followers" -> "follower"
      [] s = "cats" -> "cat"
      [] s = "users" -> "user"
      [] s = "fans" -> "fan"
      [] s = "keepers" -> "keeper"
      [] s = "groups" -> "group"
      [] OTHER -> s

Pluralize(s) ==
    CASE s = "User" -> "Users"
      [] s = "Pet" -> "Pets"
      [] OTHER -> s \o "s"

snake(s) ==
    CASE s = "User" -> "user"
      [] s = "Users" -> "users"
      [] s = "Pet" -> "pet"
      [] s = "Pets" -> "pets"
      [] OTHER -> s

\* Type.Label and Type.Table, from the type's name.
Label(name) == snake(name)
Table(name) == snake(Pluralize(name))

\* fmt's %q of a string.
Quote(s) == "\"" \o s \o "\""

\* graphError.Error of the error check(err, msg) panics with.
GraphError(msg) == "entc/gen: " \o msg

\* load.Edge declarations: an assoc edge (edge.To), an inverse edge naming
\* its assoc edge (edge.From with Ref), and an inverse edge that carries its
\* assoc edge (edge.To(..).From(..)).
EdgeTo(name, type, unique, required) ==
    [name |-> name, type |-> type, unique |-> unique, required |-> required,
     inverse |-> FALSE, refName |-> "", ref |-> Nil]

EdgeFrom(name, type, refName, unique, required) ==
    [name |-> name, type |-> type, unique |-> unique, required |-> required,
     inverse |-> TRUE, refName |-> refName, ref |-> Nil]

EdgeToFrom(name, type, unique, required, ref) ==
    [name |-> name, type |-> type, unique |-> unique, required |-> required,
     inverse |-> TRUE, refName |-> "", ref |-> Ptr(ref)]

\* load.Field / gen.Field: the name of a field, and whether it is unique
\* and optional.
Field(name, unique, optional) ==
    [name |-> name, unique |-> unique, optional |-> optional]

\* The scalar fields the schemas declare, in order: those of User and Pet
\* of the integration schema.
SchemaFields(name) ==
    CASE name = "User" ->
            <<Field("age", FALSE, FALSE), Field("name", FALSE, FALSE),
              Field("last", FALSE, FALSE), Field("nickname", TRUE, TRUE),
              Field("phone", TRUE, TRUE)>>
      [] name = "Pet" -> <<Field("name", FALSE, FALSE)>>
      [] OTHER -> <<>>

\* load.Schema.
Schema(name, edges, indexes) ==
    [name |-> name, fields |-> SchemaFields(name),
     edges |-> edges, indexes |-> indexes]

\* NewType: a type with the fields of its schema, without edges and indexes.
NewType(schema) ==
    [name |-> schema.name, fields |-> schema.fields,
     edges |-> <<>>, indexes |-> <<>>]

\* gen.Edge as addEdges builds it; Type and Owner are held by type name.
Edge(type, name, owner, inverse, unique, optional) ==
    [type |-> type, name |-> name, owner |-> owner, inverse |-> inverse,
     unique |-> unique, optional |-> optional, selfRef |-> FALSE,
     rel |-> NoRel]

IsInverse(e) == e.inverse # ""

\* Graph.typ: the index of the first node of that name, 0 when there is none.
typ(ns, name) ==
    IF \E i \in DOMAIN ns : ns[i].name = name
    THEN CHOOSE i \in DOMAIN ns :
            ns[i].name = name /\ \A j \in 1..(i - 1) : ns[j].name # name
    ELSE 0

\* Type.HasAssoc: the index of the type's first non-inverse edge of that
\* name, 0 when there is none.
HasAssoc(t, name) ==
    IF \E i \in DOMAIN t.edges : t.edges[i].name = name /\ ~IsInverse(t.edges[i])
    THEN CHOOSE i \in DOMAIN t.edges :
            /\ t.edges[i].name = name /\ ~IsInverse(t.edges[i])
            /\ \A j \in 1..(i - 1) :
                   ~(t.edges[j].name = name /\ ~IsInverse(t.edges[j]))
    ELSE 0

\* addEdge, had it accepted an assoc-inverse pair of any target type.
addEdgeAnyPairTarget(ns, ti, d) ==
    LET t == ns[ti]
        to == typ(ns, d.type)
        add(es) == [nodes |-> [ns EXCEPT ![ti].edges = @ \o es], err |-> ""]
        fail(msg) == [nodes |-> ns, err |-> GraphError(msg)]
    IN  IF to = 0
        THEN fail("type " \o Quote(d.type) \o " does not exist for edge")
        ELSE CASE ~d.inverse ->
                    add(<<Edge(d.type, d.name, t.name, "", d.unique, ~d.required)>>)
               [] d.inverse /\ d.ref = Nil ->
                    IF d.refName = ""
                    THEN fail("missing reference name for inverse edge: "
                              \o t.name \o "." \o d.name)
                    ELSE add(<<Edge(d.type, d.name, d.type, d.refName,
                                    d.unique, ~d.required)>>)
               [] OTHER ->
                    LET ref == Deref(d.ref)
                    IN  IF d.refName # ""
                        THEN fail("reference name is derived from the assoc name: "
                                  \o t.name \o "." \o ref.name \o " <-> "
                                  \o t.name \o "." \o d.name)
                        ELSE add(<<Edge(d.type, d.name, t.name, ref.name,
                                        d.unique, ~d.required),
                                   Edge(d.type, ref.name, t.name, "",
                                        ref.unique, ~ref.required)>>)

\* One iteration of the loop of addEdges: the edges declaration d of the
\* schema of node ti adds.  expect panics with the error returned in err.
addEdge(ns, ti, d) ==
    LET t == ns[ti]
        to == typ(ns, d.type)
        add(es) == [nodes |-> [ns EXCEPT ![ti].edges = @ \o es], err |-> ""]
        fail(msg) == [nodes |-> ns, err |-> GraphError(msg)]
    IN  IF to = 0
        THEN fail("type " \o Quote(d.type) \o " does not exist for edge")
        ELSE CASE ~d.inverse ->
                    add(<<Edge(d.type, d.name, t.name, "", d.unique, ~d.required)>>)
               [] d.inverse /\ d.ref = Nil ->
                    IF d.refName = ""
                    THEN fail("missing reference name for inverse edge: "
                              \o t.name \o "." \o d.name)
                    ELSE add(<<Edge(d.type, d.name, d.type, d.refName,
                                    d.unique, ~d.required)>>)
               [] OTHER ->
                    LET ref == Deref(d.ref)
                    IN  IF d.refName # ""
                        THEN fail("reference name is derived from the assoc name: "
                                  \o t.name \o "." \o ref.name \o " <-> "
                                  \o t.name \o "." \o d.name)
                        ELSE IF ref.type # t.name
                        THEN fail("assoc-inverse edge allowed only as o2o relation of the same type")
                        ELSE add(<<Edge(d.type, d.name, t.name, ref.name,
                                        d.unique, ~d.required),
                                   Edge(d.type, ref.name, t.name, "",
                                        ref.unique, ~ref.required)>>)

\* Graph.addEdges from the i-th declaration of the schema on.
RECURSIVE addEdgesFrom(_, _, _, _)
addEdgesFrom(ns, ti, ds, i) ==
    IF i > Len(ds) THEN [nodes |-> ns, err |-> ""]
    ELSE LET r == addEdge(ns, ti, ds[i])
         IN  IF r.err # "" THEN r ELSE addEdgesFrom(r.nodes, ti, ds, i + 1)

addEdges(ns, schema) == addEdgesFrom(ns, typ(ns, schema.name), schema.edges, 1)

\* relTypes, had it given the two sides of a relation with only one unique
\* edge the kinds of each other.
relTypesSwapped(a, b) ==
    CASE a /\ b -> [e |-> O2O, ref |-> O2O]
      [] ~a /\ b -> [e |-> O2M, ref |-> M2O]
      [] a /\ ~b -> [e |-> M2O, ref |-> O2M]
      [] OTHER -> [e |-> M2M, ref |-> M2M]

\* resolve, switch a, b := ref.Unique, e.Unique: the relation kinds of the
\* inverse edge (e) and of the assoc edge it references (ref).
relTypes(a, b) ==
    CASE a /\ b -> [e |-> O2O, ref |-> O2O]
      [] ~a /\ b -> [e |-> M2O, ref |-> O2M]
      [] a /\ ~b -> [e |-> O2M, ref |-> M2O]
      [] OTHER -> [e |-> M2M, ref |-> M2M]

\* relTable, had it kept the table of t when only ref is unique.
relTableOfInverse(t, e, ref) ==
    CASE ~ref.unique /\ ~e.unique -> Label(e.type) \o "_" \o ref.name
      [] OTHER -> Table(t.name)

\* resolve, the table of the relation of the inverse edge e of type t and
\* the assoc edge ref: the table of t, the table of the type of e when only
\* ref is unique, a join table when neither is.
relTable(t, e, ref) ==
    CASE ref.unique /\ ~e.unique -> Table(e.type)
      [] ~ref.unique /\ ~e.unique -> Label(e.type) \o "_" \o ref.name
      [] OTHER -> Table(t.name)

\* resolve, the relation column of a relation that is not many-to-many:
\* named after the inverse edge, after the assoc edge when only ref is unique.
relColumn(e, ref) ==
    IF ref.unique /\ ~e.unique THEN snake(ref.name) \o "_id"
    ELSE snake(e.name) \o "_id"

\* relJoinColumns, had it named both columns after the types in every case.
relJoinColumnsByType(e, ref) ==
    <<Label(ref.owner) \o "_id", Label(ref.type) \o "_id">>

\* resolve, the two columns of the join table of a many-to-many relation.
relJoinColumns(e, ref) ==
    LET c1 == Label(ref.owner) \o "_id"
        c2 == Label(ref.type) \o "_id"
    IN  <<c1, IF c1 = c2 THEN Singularize(e.name) \o "_id" ELSE c2>>

\* resolve, case e.IsInverse(): edge ei of node ti is an inverse edge.  It
\* sets the relation of the edge and of the assoc edge it references.
resolveInverse(ns, ti, ei) ==
    LET t == ns[ti]
        e == t.edges[ei]
        rt == typ(ns, e.type)
        ri == HasAssoc(ns[rt], e.inverse)
        ref == ns[rt].edges[ri]
        types == relTypes(ref.unique, e.unique)
        tbl == relTable(t, e, ref)
        columns == IF types.e = M2M THEN relJoinColumns(e, ref)
                   ELSE <<relColumn(e, ref)>>
        ns1 == [ns EXCEPT ![ti].edges[ei].rel =
                    [type |-> types.e, table |-> tbl, columns |-> columns]]
    IN  IF ri = 0
        THEN [nodes |-> ns,
              err |-> "edge is missing for inverse edge: "
                      \o e.type \o "." \o e.name]
        ELSE IF ~e.optional /\ ~ref.optional
        THEN [nodes |-> ns,
              err |-> "edges cannot be required in both directions: "
                      \o t.name \o "." \o e.name \o " <-> "
                      \o e.type \o "." \o ref.name]
        ELSE IF ref.type # t.name
        THEN [nodes |-> ns,
              err |-> "mismatch type for back-ref " \o Quote(e.inverse)
                      \o " of " \o t.name \o "." \o e.name \o " <-> "
                      \o e.type \o "." \o ref.name]
        ELSE [nodes |-> [ns1 EXCEPT ![rt].edges[ri].rel =
                            [type |-> types.ref, table |-> tbl, columns |-> columns]],
              err |-> ""]

\* assocColumn, had it kept the edge name as it is declared.
assocColumnPlural(t, e) == Label(t.name) \o "_" \o snake(e.name) \o "_id"

\* resolve, the relation column of an assoc edge e of type t resolved on its
\* own, when the relation is not many-to-many.
assocColumn(t, e) ==
    Label(t.name) \o "_" \o snake(Singularize(e.name)) \o "_id"

\* resolveAssoc, had it left the table of a unique self-referencing edge unset.
resolveAssocSelfNoTable(ns, ti, ei) ==
    LET t == ns[ti]
        e == t.edges[ei]
        self == e.type = t.name
        r == CASE ~e.unique /\ self ->
                    [type |-> M2M, table |-> Label(t.name) \o "_" \o e.name,
                     columns |-> e.rel.columns \o
                                 <<Label(e.owner) \o "_id",
                                   Singularize(e.name) \o "_id">>]
               [] e.unique /\ self ->
                    [type |-> O2O, table |-> e.rel.table, columns |-> e.rel.columns]
               [] e.unique /\ ~self ->
                    [type |-> M2O, table |-> Table(t.name), columns |-> e.rel.columns]
               [] OTHER ->
                    [type |-> O2M, table |-> Table(e.type), columns |-> e.rel.columns]
        single == <<assocColumn(t, e)>>
    IN  [nodes |-> [ns EXCEPT ![ti].edges[ei].rel =
                                  IF r.type # M2M
                                  THEN [r EXCEPT !.columns = single] ELSE r,
                              ![ti].edges[ei].selfRef = self],
         err |-> ""]

\* resolve, case !e.IsInverse() && e.Rel.Type == Unk: edge ei of node ti is
\* an assoc edge that no inverse edge has resolved.
resolveAssoc(ns, ti, ei) ==
    LET t == ns[ti]
        e == t.edges[ei]
        self == e.type = t.name
        r == CASE ~e.unique /\ self ->
                    [type |-> M2M, table |-> Label(t.name) \o "_" \o e.name,
                     columns |-> e.rel.columns \o
                                 <<Label(e.owner) \o "_id",
                                   Singularize(e.name) \o "_id">>]
               [] e.unique /\ self ->
                    [type |-> O2O, table |-> Table(t.name), columns |-> e.rel.columns]
               [] e.unique /\ ~self ->
                    [type |-> M2O, table |-> Table(t.name), columns |-> e.rel.columns]
               [] OTHER ->
                    [type |-> O2M, table |-> Table(e.type), columns |-> e.rel.columns]
        single == <<assocColumn(t, e)>>
    IN  [nodes |-> [ns EXCEPT ![ti].edges[ei].rel =
                                  IF r.type # M2M
                                  THEN [r EXCEPT !.columns = single] ELSE r,
                              ![ti].edges[ei].selfRef = self],
         err |-> ""]

\* resolveEdge, had it resolved an assoc edge on its own whatever relation
\* the edge already has.
resolveEdgeAgain(ns, ti, ei) ==
    LET e == ns[ti].edges[ei]
    IN  CASE IsInverse(e) -> resolveInverse(ns, ti, ei)
          [] OTHER -> resolveAssoc(ns, ti, ei)

\* One iteration of the loop of resolve.
resolveEdge(ns, ti, ei) ==
    LET e == ns[ti].edges[ei]
    IN  CASE IsInverse(e) -> resolveInverse(ns, ti, ei)
          [] ~IsInverse(e) /\ e.rel.type = Unk -> resolveAssoc(ns, ti, ei)
          [] OTHER -> [nodes |-> ns, err |-> ""]

\* Graph.resolve of node ti from its edge ei on: it returns at the first
\* error, with the relations set so far.
RECURSIVE resolveFrom(_, _, _)
resolveFrom(ns, ti, ei) ==
    IF ei > Len(ns[ti].edges) THEN [nodes |-> ns, err |-> ""]
    ELSE LET r == resolveEdge(ns, ti, ei)
         IN  IF r.err # "" THEN r ELSE resolveFrom(r.nodes, ti, ei + 1)

resolve(ns, ti) == resolveFrom(ns, ti, 1)

\* load.Index over edges of the type, and Type.AddIndex: it fails for an
\* edge the type does not have, else the type gets the index over the
\* relation columns.
Index(name, edges) == [name |-> name, edges |-> edges]

AddIndex(t, idx) ==
    IF \E i \in DOMAIN idx.edges :
            \A k \in DOMAIN t.edges : t.edges[k].name # idx.edges[i]
    THEN [type |-> t, err |-> "unknown index field"]
    ELSE [type |-> [t EXCEPT !.indexes = Append(@,
                        [name |-> idx.name,
                         columns |-> [i \in DOMAIN idx.edges |->
                            LET k == CHOOSE k \in DOMAIN t.edges :
                                        t.edges[k].name = idx.edges[i]
                            IN  t.edges[k].rel.columns[1]]])],
          err |-> ""]

\* Graph.addIndexes from the i-th index of the schema on.
RECURSIVE addIndexesFrom(_, _, _, _)
addIndexesFrom(ns, ti, schema, i) ==
    IF i > Len(schema.indexes) THEN [nodes |-> ns, err |-> ""]
    ELSE LET r == AddIndex(ns[ti], schema.indexes[i])
         IN  IF r.err # ""
             THEN [nodes |-> ns,
                   err |-> GraphError("invalid index for schema "
                                      \o Quote(schema.name) \o ": " \o r.err)]
             ELSE addIndexesFrom([ns EXCEPT ![ti] = r.type], ti, schema, i + 1)

addIndexes(ns, schema) == addIndexesFrom(ns, typ(ns, schema.name), schema, 1)

----------------------------------------------------------------------------
(* The query builder as a state machine.                                   *)

\* The elements of the set S of integers, smallest first.
RECURSIVE Ascending(_)
Ascending(S) ==
    IF S = {} THEN <<>>
    ELSE LET m == CHOOSE x \in S : \A y \in S : x <= y
         IN  <<m>> \o Ascending(S \ {m})

\* Graph.Tables was not called: no call is running, none has returned.
NoTables == [pc |-> "idle", all |-> <<>>, outs |-> <<>>]

\* The tables of the entity types of the migrate integration schemas.
MigTables == {"users", "groups", "pets"}

\* An empty database on dialect d: no migration has run.
NoMigration(d) ==
    [dialect |-> d, types |-> <<>>, created |-> <<>>, listed |-> <<>>,
     next |-> [t \in MigTables |-> <<0, 0, 1>>],
     ids |-> [t \in MigTables |-> <<>>],
     runs |-> 0]

\* No database is being migrated.
MigrateIdle == mig = NoMigration("mysql")

\* The client holds no ItemSelect and no ItemGroupBy.
NoHeld ==
    [kind |-> "none", b |-> "", fields |-> <<>>, fns |-> <<>>,
     sql |-> 0, gremlin |-> Nil]

\* The graph generator is not running.
GraphIdle ==
    /\ schemas = <<>>
    /\ nodes = <<>>
    /\ pc = "idle"
    /\ cursor = 0
    /\ gerr = ""
    /\ derive = NoTables

\* A client's Item.Query() (edge = FALSE: the items table / all item
\* vertices) or the query of an edge (edge = TRUE: the builder is handed an
\* intermediate selector or traversal that reaches `joined`, an item once
\* per join row / path), on any stored data and any driver.  The unique
\* override is either absent or names the id column.
InitQuery(edges, overrides) ==
    /\ dialect \in Dialects
    /\ \E stored \in SUBSET Ids : table = Ascending(stored)
    /\ \E edge \in edges, override \in overrides :
        /\ joined \in IF edge THEN SeqsUpTo(Range(table), MaxRows) ELSE {<<>>}
        /\ heap = IF override THEN << <<FieldID>> >> ELSE <<>>
        /\ sels = IF edge /\ IsSQL(dialect) THEN <<NewSelector("join")>> ELSE <<>>
        /\ bld = [b \in {"q"} |->
                    NewItemQuery(IF override THEN [arr |-> 1, len |-> 1] ELSE NilSlice,
                                 IF edge /\ IsSQL(dialect) THEN 1 ELSE 0,
                                 IF edge /\ IsGremlin(dialect)
                                 THEN Ptr(NewTraversal("join")) ELSE Nil)]
    /\ ret = Result
    /\ calls = 0
    /\ held = NoHeld

Init == InitQuery(BOOLEAN, {FALSE}) /\ GraphIdle /\ MigrateIdle

\* The fluent call op on builder b that leaves it as iq1 with heap h1, in
\* a run of at most n calls.
FluentWithin(n, b, op, iq1, h1) ==
    /\ b \in DOMAIN bld
    /\ calls < n
    /\ bld' = [bld EXCEPT ![b] = iq1]
    /\ heap' = h1
    /\ ret' = [Result EXCEPT !.op = op, !.b = b]
    /\ calls' = calls + 1
    /\ UNCHANGED <<dialect, table, joined, sels, gvars>>

\* A terminal operation op on builder b that leaves it as iq1 and returns
\* r.  The selector the operation built is the builder's intermediate
\* selector when it has one: what the operation did to it stays.
Terminal(b, op, iq1, r) ==
    /\ bld' = [bld EXCEPT ![b] = iq1]
    /\ sels' = IF iq1.sql # 0 /\ r.sel # Nil
               THEN [sels EXCEPT ![iq1.sql] = Deref(r.sel)] ELSE sels
    /\ ret' = [r EXCEPT !.op = op, !.b = b]
    /\ calls' = calls + 1
    /\ UNCHANGED <<dialect, table, joined, heap, gvars>>

Fluent(b, op, iq1, h1) == FluentWithin(MaxCalls, b, op, iq1, h1)

DoWhere ==
    \E b \in DOMAIN bld, p \in PredInputs :
        LET w == Where(bld[b], heap, <<p>>) IN Fluent(b, "Where", w.iq, w.heap)

DoOrder ==
    \E b \in DOMAIN bld, o \in OrderInputs :
        LET w == Order(bld[b], heap, <<o>>) IN Fluent(b, "Order", w.iq, w.heap)

DoLimit ==
    \E b \in DOMAIN bld, n \in LimitVals : Fluent(b, "Limit", Limit(bld[b], n), heap)

DoOffset ==
    \E b \in DOMAIN bld, n \in OffsetVals : Fluent(b, "Offset", Offset(bld[b], n), heap)

\* c := q.Clone().
CloneStep ==
    /\ DOMAIN bld = {"q"}
    /\ LET c == Clone(bld["q"], heap, sels)
       IN  /\ bld' = [b \in {"q", "c"} |-> IF b = "q" THEN bld["q"] ELSE c.iq]
           /\ heap' = c.heap
           /\ sels' = c.sels
    /\ ret' = [Result EXCEPT !.op = "Clone", !.b = "q"]
    /\ calls' = calls + 1
    /\ UNCHANGED <<dialect, table, joined, gvars>>

DoClone == calls < MaxCalls /\ CloneStep

DoFirst ==
    \E b \in DOMAIN bld, fail \in BOOLEAN :
        /\ calls < MaxCalls
        /\ Terminal(b, "First", Limit(bld[b], 1), First(bld[b], heap, sels, fail))

DoFirstID ==
    \E b \in DOMAIN bld, fail \in BOOLEAN :
        /\ calls < MaxCalls
        /\ Terminal(b, "FirstID", Limit(bld[b], 1), FirstID(bld[b], heap, sels, fail))

DoOnly ==
    \E b \in DOMAIN bld, fail \in BOOLEAN :
        /\ calls < MaxCalls
        /\ Terminal(b, "Only", Limit(bld[b], 2), Only(bld[b], heap, sels, fail))

DoOnlyID ==
    \E b \in DOMAIN bld, fail \in BOOLEAN :
        /\ calls < MaxCalls
        /\ Terminal(b, "OnlyID", Limit(bld[b], 2), OnlyID(bld[b], heap, sels, fail))

DoAll ==
    \E b \in DOMAIN bld, fail \in BOOLEAN :
        /\ calls < MaxCalls
        /\ Terminal(b, "All", bld[b], All(bld[b], heap, sels, fail))

DoIDs ==
    \E b \in DOMAIN bld, fail \in BOOLEAN :
        /\ calls < MaxCalls
        /\ Terminal(b, "IDs", bld[b], IDs(bld[b], heap, sels, fail))

DoCount ==
    \E b \in DOMAIN bld, fail \in BOOLEAN :
        /\ calls < MaxCalls
        /\ Terminal(b, "Count", bld[b], Count(bld[b], heap, sels, fail))

DoExist ==
    \E b \in DOMAIN bld, fail \in BOOLEAN :
        /\ calls < MaxCalls
        /\ Terminal(b, "Exist", bld[b], Exist(bld[b], heap, sels, fail))

\* One client, one builder: any fluent call or terminal operation.
Next ==
    \/ DoWhere
    \/ DoOrder
    \/ DoLimit
    \/ DoOffset
    \/ DoFirst
    \/ DoFirstID
    \/ DoOnly
    \/ DoOnlyID
    \/ DoAll
    \/ DoIDs
    \/ DoCount
    \/ DoExist

Spec == Init /\ [][Next]_vars

\* The fields a client selects: the id, or a field the Item type lacks.
SelectInputs == {<<FieldID>>, <<"name">>}
\* The fields a client groups by.
GroupInputs == {<<FieldID>>}
\* The aggregate functions a client adds: Count().
AggregateInputs == {<<CountLabel>>}

\* A call on builder b that hands the client the ItemSelect or ItemGroupBy
\* o of the given kind; sqlQuery has changed the selectors to S.
Hold(b, op, kind, o, S) ==
    /\ calls < MaxCalls
    /\ held' = [kind |-> kind, b |-> b, fields |-> o.fields,
                fns |-> IF kind = "group" THEN o.fns ELSE <<>>,
                sql |-> o.sql, gremlin |-> o.gremlin]
    /\ sels' = S
    /\ ret' = [Result EXCEPT !.op = op, !.b = b]
    /\ calls' = calls + 1
    /\ UNCHANGED <<dialect, table, joined, heap, bld, ovars>>

\* s := iq.Select(fields...).
DoSelect ==
    \E b \in DOMAIN bld, fields \in SelectInputs :
        LET s == Select(bld[b], heap, sels, fields)
        IN  Hold(b, "Select", "select", s.is, s.sels)

\* g := iq.GroupBy(fields...).
DoGroupBy ==
    \E b \in DOMAIN bld, fields \in GroupInputs :
        LET g == GroupBy(bld[b], heap, sels, fields)
        IN  Hold(b, "GroupBy", "group", g.igb, g.sels)

\* g.Aggregate(fns...).
DoAggregate ==
    \E fns \in AggregateInputs :
        /\ held.kind = "group"
        /\ calls < MaxCalls
        /\ held' = Aggregate(held, fns)
        /\ ret' = [Result EXCEPT !.op = "Aggregate", !.b = held.b]
        /\ calls' = calls + 1
        /\ UNCHANGED <<dialect, table, joined, heap, sels, bld, ovars>>

\* The scan of the held object returned r: the selector and the traversal
\* of the object are the ones the scan built.
Scanned(op, r) ==
    /\ calls < MaxCalls
    /\ ret' = [r EXCEPT !.op = op, !.b = held.b]
    /\ sels' = IF r.sel # Nil THEN [sels EXCEPT ![held.sql] = Deref(r.sel)]
               ELSE sels
    /\ held' = IF r.trav # Nil THEN [held EXCEPT !.gremlin = r.trav] ELSE held
    /\ calls' = calls + 1
    /\ UNCHANGED <<dialect, table, joined, heap, bld, ovars>>

\* s.Scan(ctx, &v).
DoSelectScan ==
    \E fail \in BOOLEAN :
        /\ held.kind = "select"
        /\ Scanned("Select.Scan", ItemSelect_Scan(held, sels, fail))

\* g.Scan(ctx, &v).
DoGroupByScan ==
    \E fail \in BOOLEAN :
        /\ held.kind = "group"
        /\ Scanned("GroupBy.Scan", ItemGroupBy_Scan(held, sels, fail))

\* One client: any fluent call or terminal operation on a builder, Clone,
\* Select and GroupBy, and Aggregate and Scan on what those returned.
NextScan ==
    \/ Next
    \/ DoClone
    \/ DoSelect
    \/ DoGroupBy
    \/ DoAggregate
    \/ DoSelectScan
    \/ DoGroupByScan

SpecScan == Init /\ [][NextScan]_vars

\* The calls on a builder and its clone, in runs of MaxCloneCalls calls:
\* Clone of q, Where with one or more predicates, Order, Limit, Offset and
\* Count on either.
PairClone == calls < MaxCloneCalls /\ CloneStep

PairWhere ==
    \E b \in DOMAIN bld, ps \in WhereLists :
        LET w == Where(bld[b], heap, ps)
        IN  FluentWithin(MaxCloneCalls, b, "Where", w.iq, w.heap)

PairOrder ==
    \E b \in DOMAIN bld, os \in OrderLists :
        LET w == Order(bld[b], heap, os)
        IN  FluentWithin(MaxCloneCalls, b, "Order", w.iq, w.heap)

PairLimit ==
    \E b \in DOMAIN bld, n \in LimitVals :
        FluentWithin(MaxCloneCalls, b, "Limit", Limit(bld[b], n), heap)

PairOffset ==
    \E b \in DOMAIN bld, n \in OffsetVals :
        FluentWithin(MaxCloneCalls, b, "Offset", Offset(bld[b], n), heap)

PairCount ==
    \E b \in DOMAIN bld, fail \in BOOLEAN :
        /\ calls < MaxCloneCalls
        /\ Terminal(b, "Count", bld[b], Count(bld[b], heap, sels, fail))

NextClone ==
    \/ PairClone
    \/ PairWhere
    \/ PairOrder
    \/ PairLimit
    \/ PairOffset
    \/ PairCount

\* The queries that are cloned: Item.Query() on the items 1 and 2, and
\* the query of an edge that reaches item 1 twice and item 2 once, on any
\* driver.
InitClone ==
    /\ dialect \in Dialects
    /\ table = <<1, 2>>
    /\ \E edge \in BOOLEAN :
        /\ joined = IF edge THEN <<1, 1, 2>> ELSE <<>>
        /\ sels = IF edge /\ IsSQL(dialect) THEN <<NewSelector("join")>> ELSE <<>>
        /\ bld = [b \in {"q"} |->
                    NewItemQuery(NilSlice,
                                 IF edge /\ IsSQL(dialect) THEN 1 ELSE 0,
                                 IF edge /\ IsGremlin(dialect)
                                 THEN Ptr(NewTraversal("join")) ELSE Nil)]
    /\ heap = <<>>
    /\ ret = Result
    /\ calls = 0
    /\ held = NoHeld
    /\ GraphIdle /\ MigrateIdle

SpecClone == InitClone /\ [][NextClone]_vars

----------------------------------------------------------------------------
(* NewGraph as a state machine: one step per iteration of its four loops.  *)

\* The edge declarations the input schemas of User and Pet are drawn from.
\* edge.To(..).From(..) gives the inverse edge the type of its assoc edge.
UserEdgeDecls ==
    {EdgeFrom("pets", "Pet", "owner", FALSE, FALSE),
     EdgeFrom("pet", "Pet", "owner", TRUE, FALSE),
     EdgeFrom("pets", "Pet", "owner", FALSE, TRUE),
     EdgeFrom("cats", "Pet", "keeper", FALSE, FALSE),
     EdgeFrom("groups", "Group", "users", FALSE, FALSE),
     EdgeFrom("fans", "User", "friends", FALSE, FALSE),
     EdgeTo("friends", "User", FALSE, FALSE),
     EdgeTo("users", "User", FALSE, FALSE),
     EdgeTo("spouse", "User", TRUE, FALSE),
     EdgeTo("pet", "Pet", TRUE, FALSE),
     EdgeTo("pets", "Pet", TRUE, FALSE),
     EdgeToFrom("followers", "User", FALSE, FALSE,
                [name |-> "following", type |-> "User",
                 unique |-> FALSE, required |-> FALSE]),
     EdgeToFrom("keepers", "Pet", FALSE, FALSE,
                [name |-> "keeping", type |-> "Pet",
                 unique |-> FALSE, required |-> FALSE])}

PetEdgeDecls ==
    {EdgeTo("owner", "User", TRUE, FALSE),
     EdgeTo("owner", "User", FALSE, FALSE),
     EdgeTo("owner", "User", TRUE, TRUE),
     EdgeTo("owner", "Pet", TRUE, FALSE)}

PetIndexes == {<<>>, <<Index("pet_owner", <<"owner">>)>>}

\* The edge names a declaration introduces.
DeclNames(d) == {d.name} \cup (IF d.ref = Nil THEN {} ELSE {Deref(d.ref).name})

\* The lists of at most n declarations of D.  Nothing in NewGraph keeps a
\* schema from declaring an edge name twice.
EdgeLists(D, n) == SeqsUpTo(D, n)

\* The edge lists of Pet: at most one declaration, or owner declared twice.
PetEdgeLists ==
    EdgeLists(PetEdgeDecls, 1)
    \cup {<<EdgeTo("owner", "User", TRUE, FALSE),
            EdgeTo("owner", "User", FALSE, FALSE)>>}

\* No builder call is made while the graph is built.
QueryIdle ==
    /\ dialect = "mysql"
    /\ table = <<>>
    /\ joined = <<>>
    /\ heap = <<>>
    /\ sels = <<>>
    /\ bld = [b \in {"q"} |-> NewItemQuery(NilSlice, 0, Nil)]
    /\ ret = Result
    /\ calls = 0
    /\ held = NoHeld

\* NewGraph is called with the schemas of User and Pet, in either order:
\* g.Nodes is empty and the first loop is about to start.
InitGraph ==
    /\ \E us \in EdgeLists(UserEdgeDecls, MaxEdges),
          ps \in PetEdgeLists,
          ix \in PetIndexes, userFirst \in BOOLEAN :
            schemas = IF userFirst
                      THEN <<Schema("User", us, <<>>), Schema("Pet", ps, ix)>>
                      ELSE <<Schema("Pet", ps, ix), Schema("User", us, <<>>)>>
    /\ nodes = <<>>
    /\ pc = "addNode"
    /\ cursor = 1
    /\ gerr = ""
    /\ derive = NoTables
    /\ QueryIdle
    /\ MigrateIdle

\* The loops of NewGraph, had the indexes been attached before the
\* relations are resolved.
PhaseAfterIndexesFirst(phase) ==
    CASE phase = "addNode" -> "addEdges"
      [] phase = "addEdges" -> "addIndexes"
      [] phase = "addIndexes" -> "resolve"
      [] OTHER -> "done"

\* The loop that follows `phase` in NewGraph; after the last one it returns.
PhaseAfter(phase) ==
    CASE phase = "addNode" -> "addEdges"
      [] phase = "addEdges" -> "resolve"
      [] phase = "resolve" -> "addIndexes"
      [] OTHER -> "done"

\* One iteration of the running loop ended with the graph ns and err:
\* a panic ends NewGraph with that error, else the loop or NewGraph goes on.
Continue(ns, err) ==
    /\ nodes' = ns
    /\ gerr' = err
    /\ IF err # ""
       THEN pc' = "failed" /\ cursor' = 0
       ELSE IF cursor < Len(schemas)
       THEN pc' = pc /\ cursor' = cursor + 1
       ELSE pc' = PhaseAfter(pc) /\ cursor' = IF pc = "addIndexes" THEN 0 ELSE 1
    /\ UNCHANGED <<schemas, derive, qvars>>

GraphAddNode ==
    /\ pc = "addNode"
    /\ Continue(Append(nodes, NewType(schemas[cursor])), "")

GraphAddEdges ==
    /\ pc = "addEdges"
    /\ LET r == addEdges(nodes, schemas[cursor]) IN Continue(r.nodes, r.err)

GraphResolve ==
    /\ pc = "resolve"
    /\ LET r == resolve(nodes, cursor)
       IN  Continue(r.nodes,
                    IF r.err = "" THEN ""
                    ELSE GraphError("resolve " \o Quote(nodes[cursor].name)
                                    \o " relations: " \o r.err))

GraphAddIndexes ==
    /\ pc = "addIndexes"
    /\ LET r == addIndexes(nodes, schemas[cursor]) IN Continue(r.nodes, r.err)

\* Bound: the number of times Tables is called on the built graph.
MaxDerive == 2

\* schema.SetNull and schema.Cascade.
SetNull == "SET NULL"
Cascade == "CASCADE"

\* schema.Column, of type field.TypeInt unless it is a scalar field.
Column(name, unique, nullable) ==
    [name |-> name, unique |-> unique, nullable |-> nullable]

\* Type.ID.Column() and Field.Column().
IDColumn == Column("id", FALSE, FALSE)
FieldColumn(f) == Column(f.name, f.unique, f.optional)

\* schema.NewTable, Table.AddColumn, Table.AddPrimary, Table.AddForeignKey
\* and Table.AddIndex: each appends to a list of the table.
NewTable(name) ==
    [name |-> name, columns |-> <<>>, primaryKey |-> <<>>,
     foreignKeys |-> <<>>, indexes |-> <<>>]
AddColumn(t, c) == [t EXCEPT !.columns = Append(@, c)]
AddPrimary(t, c) == AddColumn([t EXCEPT !.primaryKey = Append(@, c)], c)
AddForeignKey(t, fk) == [t EXCEPT !.foreignKeys = Append(@, fk)]
TableAddIndex(t, idx) == [t EXCEPT !.indexes = Append(@, idx)]

\* schema.ForeignKey; RefTable is held by the name of the table.
ForeignKey(symbol, columns, refTable, refColumns, onDelete) ==
    [symbol |-> symbol, columns |-> columns, refTable |-> refTable,
     refColumns |-> refColumns, onDelete |-> onDelete]

\* Relation.Column(): the first column of the relation.
RelColumn(rel) == rel.columns[1]

\* Tables, tables[name]: the place in `all` of the table the map holds for
\* name, the table of the last node of that table name; 0 is a nil pointer.
TableOf(ns, name) ==
    LET S == {i \in DOMAIN ns : Table(ns[i].name) = name}
    IN  IF S = {} THEN 0 ELSE CHOOSE i \in S : \A j \in S : j <= i

\* Tables, the columns of the fields fs of a node, from the i-th on.
RECURSIVE AddFieldColumns(_, _, _)
AddFieldColumns(t, fs, i) ==
    IF i > Len(fs) THEN t
    ELSE AddFieldColumns(AddColumn(t, FieldColumn(fs[i])), fs, i + 1)

\* tablesNodes, had it added the primary key after the columns of the fields.
tablesNodesIDLast(ns) ==
    [i \in DOMAIN ns |->
        AddPrimary(AddFieldColumns(NewTable(Table(ns[i].name)),
                                   ns[i].fields, 1), IDColumn)]

\* Tables, first loop: one table per node, with its primary key and the
\* columns of its fields; the table of node i is all[i].
tablesNodes(ns) ==
    [i \in DOMAIN ns |->
        AddFieldColumns(AddPrimary(NewTable(Table(ns[i].name)), IDColumn),
                        ns[i].fields, 1)]

\* Tables, add the relation column and the foreign key of edge e to the
\* table at owner, referencing the table at ref.  A nil table panics.
tablesRelation(all, owner, ref, e, unique) ==
    IF owner = 0 \/ ref = 0 THEN [all |-> all, err |-> "nil pointer dereference"]
    ELSE LET column == Column(RelColumn(e.rel), unique, TRUE)
             fk == ForeignKey(all[owner].name \o "_" \o all[ref].name
                                  \o "_" \o e.name,
                              <<column>>, all[ref].name,
                              <<all[ref].primaryKey[1]>>, SetNull)
         IN  [all |-> [all EXCEPT ![owner] =
                          AddForeignKey(AddColumn(@, column), fk)],
              err |-> ""]

\* tablesJoinTable, had it listed the two columns in the other order.
tablesJoinTableReversed(all, t1, t2, e) ==
    IF t1 = 0 \/ t2 = 0 THEN [all |-> all, err |-> "nil pointer dereference"]
    ELSE LET c1 == Column(e.rel.columns[1], FALSE, FALSE)
             c2 == Column(e.rel.columns[2], FALSE, FALSE)
         IN  [all |-> Append(all,
                  [name |-> e.rel.table,
                   columns |-> <<c2, c1>>,
                   primaryKey |-> <<c2, c1>>,
                   foreignKeys |->
                       <<ForeignKey(e.rel.table \o "_" \o c1.name, <<c1>>,
                                    all[t1].name, <<all[t1].primaryKey[1]>>,
                                    Cascade),
                         ForeignKey(e.rel.table \o "_" \o c2.name, <<c2>>,
                                    all[t2].name, <<all[t2].primaryKey[1]>>,
                                    Cascade)>>,
                   indexes |-> <<>>]),
              err |-> ""]

\* Tables, case M2M: append the join table of the edge e between the
\* tables at t1 and t2.
tablesJoinTable(all, t1, t2, e) ==
    IF t1 = 0 \/ t2 = 0 THEN [all |-> all, err |-> "nil pointer dereference"]
    ELSE LET c1 == Column(e.rel.columns[1], FALSE, FALSE)
             c2 == Column(e.rel.columns[2], FALSE, FALSE)
         IN  [all |-> Append(all,
                  [name |-> e.rel.table,
                   columns |-> <<c1, c2>>,
                   primaryKey |-> <<c1, c2>>,
                   foreignKeys |->
                       <<ForeignKey(e.rel.table \o "_" \o c1.name, <<c1>>,
                                    all[t1].name, <<all[t1].primaryKey[1]>>,
                                    Cascade),
                         ForeignKey(e.rel.table \o "_" \o c2.name, <<c2>>,
                                    all[t2].name, <<all[t2].primaryKey[1]>>,
                                    Cascade)>>,
                   indexes |-> <<>>]),
              err |-> ""]

\* tablesEdge, had it not skipped the inverse edges.
tablesEdgeInverseToo(all, ns, ni, ei) ==
    LET n == ns[ni]
        e == n.edges[ei]
    IN  CASE e.rel.type \in {O2O, O2M} ->
                tablesRelation(all, TableOf(ns, e.rel.table),
                               TableOf(ns, Table(n.name)), e, e.rel.type = O2O)
          [] e.rel.type = M2O ->
                tablesRelation(all, TableOf(ns, e.rel.table),
                               TableOf(ns, Table(e.type)), e, FALSE)
          [] e.rel.type = M2M ->
                tablesJoinTable(all, TableOf(ns, Table(n.name)),
                                TableOf(ns, Table(e.type)), e)
          [] OTHER -> [all |-> all, err |-> ""]

\* Tables, second loop, one iteration: edge ei of node ni.
tablesEdge(all, ns, ni, ei) ==
    LET n == ns[ni]
        e == n.edges[ei]
    IN  CASE IsInverse(e) -> [all |-> all, err |-> ""]
          [] e.rel.type \in {O2O, O2M} ->
                tablesRelation(all, TableOf(ns, e.rel.table),
                               TableOf(ns, Table(n.name)), e, e.rel.type = O2O)
          [] e.rel.type = M2O ->
                tablesRelation(all, TableOf(ns, e.rel.table),
                               TableOf(ns, Table(e.type)), e, FALSE)
          [] e.rel.type = M2M ->
                tablesJoinTable(all, TableOf(ns, Table(n.name)),
                                TableOf(ns, Table(e.type)), e)
          [] OTHER -> [all |-> all, err |-> ""]

\* Tables, second loop from edge ei of node ni on.
RECURSIVE tablesEdgesFrom(_, _, _, _)
tablesEdgesFrom(all, ns, ni, ei) ==
    IF ni > Len(ns) THEN [all |-> all, err |-> ""]
    ELSE IF ei > Len(ns[ni].edges) THEN tablesEdgesFrom(all, ns, ni + 1, 1)
    ELSE LET r == tablesEdge(all, ns, ni, ei)
         IN  IF r.err # "" THEN r ELSE tablesEdgesFrom(r.all, ns, ni, ei + 1)

tablesEdges(all, ns) == tablesEdgesFrom(all, ns, 1, 1)

\* Tables, third loop: the indexes of every node go to tables[n.Table()].
RECURSIVE AddIndexes(_, _, _)
AddIndexes(t, idxs, i) ==
    IF i > Len(idxs) THEN t
    ELSE AddIndexes(TableAddIndex(t, idxs[i]), idxs, i + 1)

RECURSIVE tablesIndexesFrom(_, _, _)
tablesIndexesFrom(all, ns, ni) ==
    IF ni > Len(ns) THEN [all |-> all, err |-> ""]
    ELSE LET k == TableOf(ns, Table(ns[ni].name))
         IN  IF k = 0 THEN [all |-> all, err |-> "nil pointer dereference"]
             ELSE tablesIndexesFrom(
                      [all EXCEPT ![k] = AddIndexes(@, ns[ni].indexes, 1)],
                      ns, ni + 1)

tablesIndexes(all, ns) == tablesIndexesFrom(all, ns, 1)

\* Graph.Tables as a function of g.Nodes.
Tables(ns) ==
    LET r == tablesEdges(tablesNodes(ns), ns)
    IN  IF r.err # "" THEN r ELSE tablesIndexes(r.all, ns)

\* Tables is called on the graph NewGraph built; its three loops run one
\* after the other, and the call returns `all` after the third.
TablesStep(next, r) ==
    /\ derive' = IF r.err # ""
                 THEN [derive EXCEPT !.pc = "panic", !.all = r.all]
                 ELSE IF next = "idle"
                 THEN [pc |-> "idle", all |-> <<>>,
                       outs |-> Append(derive.outs, r.all)]
                 ELSE [derive EXCEPT !.pc = next, !.all = r.all]
    /\ UNCHANGED <<schemas, nodes, pc, cursor, gerr, qvars>>

GraphTablesNodes ==
    /\ pc = "done"
    /\ derive.pc = "idle"
    /\ Len(derive.outs) < MaxDerive
    /\ TablesStep("edges", [all |-> tablesNodes(nodes), err |-> ""])

GraphTablesEdges ==
    /\ derive.pc = "edges"
    /\ TablesStep("indexes", tablesEdges(derive.all, nodes))

GraphTablesIndexes ==
    /\ derive.pc = "indexes"
    /\ TablesStep("idle", tablesIndexes(derive.all, nodes))

NextGraph ==
    \/ GraphAddNode
    \/ GraphAddEdges
    \/ GraphResolve
    \/ GraphAddIndexes
    \/ GraphTablesNodes
    \/ GraphTablesEdges
    \/ GraphTablesIndexes

SpecGraph == InitGraph /\ [][NextGraph]_vars

\* NewGraph as a function of its schemas: the four loops run to the end or
\* to the first error, from iteration i of the loop `phase` on.
RECURSIVE NewGraphFrom(_, _, _, _)
NewGraphFrom(ss, ns, phase, i) ==
    IF phase = "done" THEN [nodes |-> ns, err |-> ""]
    ELSE IF i > (IF phase = "resolve" THEN Len(ns) ELSE Len(ss))
    THEN NewGraphFrom(ss, ns, PhaseAfter(phase), 1)
    ELSE LET r == CASE phase = "addNode" ->
                            [nodes |-> Append(ns, NewType(ss[i])), err |-> ""]
                    [] phase = "addEdges" -> addEdges(ns, ss[i])
                    [] phase = "resolve" ->
                            LET rr == resolve(ns, i)
                            IN  [nodes |-> rr.nodes,
                                 err |-> IF rr.err = "" THEN ""
                                         ELSE GraphError("resolve " \o Quote(ns[i].name)
                                                         \o " relations: " \o rr.err)]
                    [] OTHER -> addIndexes(ns, ss[i])
         IN  IF r.err # "" THEN r
             ELSE NewGraphFrom(ss, r.nodes, phase, i + 1)

NewGraph(ss) == NewGraphFrom(ss, <<>>, "addNode", 1)

----------------------------------------------------------------------------
(* Schema.Create with WithGlobalUniqueID(true), as the migrate integration  *)
(* test drives it: migrations over lists of tables, and entity creation.    *)

\* Most entities the model creates in one table.
MaxSaves == 6
\* Most migrations the model runs on one database.
MaxMigrations == 2

\* The width of an id range in bits: type number n has the ids from
\* n << RangeBits on.
RangeBits == 32
\* A 64-bit id is held as three limbs, most significant first: the bits
\* from RangeBits up, and the RangeBits bits below them as two limbs of
\* equal width.
LimbSize == 2 ^ (RangeBits \div 2)

\* The id hi * 2^32 + mid * 2^16 + lo.
Int64(hi, mid, lo) == <<hi, mid, lo>>

\* x + 1.
Inc(x) ==
    IF x[3] + 1 < LimbSize THEN Int64(x[1], x[2], x[3] + 1)
    ELSE IF x[2] + 1 < LimbSize THEN Int64(x[1], x[2] + 1, 0)
    ELSE Int64(x[1] + 1, 0, 0)

\* x < y.
Less(x, y) ==
    \/ x[1] < y[1]
    \/ x[1] = y[1] /\ x[2] < y[2]
    \/ x[1] = y[1] /\ x[2] = y[2] /\ x[3] < y[3]

\* idRange of the test: l < id < h.
idRange(id, l, h) == Less(l, id) /\ Less(id, h)

\* The dialects the migration runs on.
MigrateDialects == {"mysql", "sqlite3"}

\* The position of s in the list a, counted from 0; -1 when a has no s.
indexOf(a, s) ==
    IF \E i \in DOMAIN a : a[i] = s
    THEN (CHOOSE i \in DOMAIN a : a[i] = s /\ \A j \in 1..(i - 1) : a[j] # s) - 1
    ELSE -1

\* The first id of the range of the type with index id: id << RangeBits.
pkRange(id) == Int64(id, 0, 0)

\* The next id of a table once its range starts at `start`.  MySQL's
\* AUTO_INCREMENT = start makes start the next id (1 when start is 0);
\* SQLite's sequence row holds start as the last id, the next is one more.
setRange(d, start) ==
    IF d = "sqlite3" \/ start = Int64(0, 0, 0) THEN Inc(start) ELSE start

\* Allocating the id range of table t, had a new type been put in front of
\* the type table instead of at its end.
allocPKRangeFront(m, t) ==
    LET known == indexOf(m.types, t)
        id == IF known = -1 THEN Len(m.types) ELSE known
    IN  [m EXCEPT !.types = IF known = -1 THEN <<t>> \o @ ELSE @,
                  !.next[t] = setRange(m.dialect, pkRange(id))]

\* Allocating the id range of the new table t: a type the type table knows
\* keeps its index, a new type is appended to the type table and gets the
\* next index; the table's counter is set to the start of the range.
allocPKRange(m, t) ==
    LET known == indexOf(m.types, t)
        id == IF known = -1 THEN Len(m.types) ELSE known
    IN  [m EXCEPT !.types = IF known = -1 THEN Append(@, t) ELSE @,
                  !.next[t] = setRange(m.dialect, pkRange(id))]

\* The migration of the tables from position i on, in the order listed: a
\* table that exists is left as it is, a missing table is created and
\* given its id range.
RECURSIVE createFrom(_, _, _)
createFrom(m, tables, i) ==
    IF i > Len(tables) THEN m
    ELSE LET t == tables[i]
         IN  createFrom(IF t \in Range(m.created) THEN m
                        ELSE allocPKRange([m EXCEPT !.created = Append(@, t)], t),
                        tables, i + 1)

\* Schema.Create(ctx, WithGlobalUniqueID(true)) over the listed tables.
Create(m, tables) ==
    [createFrom(m, tables, 1) EXCEPT !.listed = tables, !.runs = @ + 1]

\* Create().Save(ctx) on table t: the database gives the row the next id of
\* the table's counter.
Save(m, t) ==
    LET id == m.next[t]
    IN  [m EXCEPT !.next[t] = Inc(id), !.ids[t] = Append(@, id)]

\* The lists of tables a version of the schema can migrate: every order of
\* every non-empty set of tables.
TableLists == {l \in SeqsUpTo(MigTables, Cardinality(MigTables)) :
                  l # <<>> /\ NoDuplicates(l)}

InitMigrate ==
    /\ QueryIdle
    /\ GraphIdle
    /\ \E d \in MigrateDialects : mig = NoMigration(d)

\* One migration of the database by a client of some version.
MigrateCreate ==
    \E tables \in TableLists :
        /\ mig.runs < MaxMigrations
        /\ mig' = Create(mig, tables)
        /\ UNCHANGED <<dialect, table, joined, heap, sels, bld, ret, calls,
                       schemas, nodes, pc, cursor, gerr, derive, held>>

\* One entity of some migrated type is saved.
MigrateSave ==
    \E t \in Range(mig.created) :
        /\ Len(mig.ids[t]) < MaxSaves
        /\ mig' = Save(mig, t)
        /\ UNCHANGED <<dialect, table, joined, heap, sels, bld, ret, calls,
                       schemas, nodes, pc, cursor, gerr, derive, held>>

NextMigrate ==
    \/ MigrateCreate
    \/ MigrateSave

SpecMigrate == InitMigrate /\ [][NextMigrate]_vars

----------------------------------------------------------------------------
(* What the claims about the query builder speak of.                       *)

\* The accumulator of builder b as its owner reads it.
Preds(b) == Elems(heap, bld[b].predicates)
Orders(b) == Elems(heap, bld[b].order)
Unique(b) == Elems(heap, bld[b].unique)
Acc(b) ==
    [predicates |-> Preds(b), order |-> Orders(b), unique |-> Unique(b),
     limit |-> bld[b].limit, offset |-> bld[b].offset]

\* Where builder b's rows come from: the intermediate query or the table.
From(b) == IF bld[b].sql # 0 \/ bld[b].gremlin # Nil THEN "join" ELSE "table"

\* The rows (join rows, traversers) that satisfy b's predicates, and the
\* distinct entities among them, in the declared order.
Hits(b) == Matching(SourceRows(From(b)), Preds(b))
DistinctOrdered(b) == FromRows(SortRows(Dedup(Hits(b)), Orders(b)))

\* The ordered, deduplicated result of b's query past its offset, and the
\* window its limit and offset select of that result.
PastOffset(b) == Window(DistinctOrdered(b), Nil, bld[b].offset)
LogicalResult(b) == Window(DistinctOrdered(b), bld[b].limit, bld[b].offset)

\* The last call was the terminal operation op, its query reached the
\* backend and the driver answered it.
Answered(op) == ret.op = op /\ ret.sent = 1 /\ ret.drv = ""

\* C1: on either backend, Only returns the row when the deduplicated
\* result of the query has exactly one row, NotFound when it has none and
\* NotSingular when two or more distinct entities match.
C1_OnlyExactlyOne ==
    (Answered("Only") /\ Unique(ret.b) = <<>>) =>
        LET d == PastOffset(ret.b)
        IN  /\ Len(d) = 1 => ret.err = "" /\ ret.items = d
            /\ Len(d) = 0 => ret.err = ErrNotFound /\ ret.items = <<>>
            /\ Len(d) >= 2 => ret.err = ErrNotSingular /\ ret.items = <<>>

\* The exactly-one property of Only on the SQL backend alone, where it holds.
OnlyExactlyOneOnSQL == IsSQL(dialect) => C1_OnlyExactlyOne

\* C4: All returns, on either backend, the window that limit and offset
\* select of the ordered, deduplicated result.
C4_AllIsLogicalResult ==
    (Answered("All") /\ Unique(ret.b) = <<>>) =>
        ret.err = "" /\ ret.items = LogicalResult(ret.b)

\* The window property of All on the SQL backend alone, where it holds.
AllIsLogicalResultOnSQL == IsSQL(dialect) => C4_AllIsLogicalResult

\* C5: Count returns, on either backend, the number of distinct entities
\* that match the accumulated predicates, also with a limit or an offset.
C5_CountDistinctMatching ==
    (Answered("Count") /\ Unique(ret.b) = <<>>) =>
        ret.err = "" /\ ret.n = Len(Dedup(Hits(ret.b)))

\* C7: with no unique override, no fetch returns the same entity twice.
C7_FetchDeduplicated ==
    (ret.op \in {"All", "First", "Only", "IDs"} /\ Unique(ret.b) = <<>>) =>
        NoDuplicates(ret.items) /\ NoDuplicates(ret.ids)

\* The rows First chooses from: the matching rows in the declared order,
\* past the offset.  The SQL query skips the offset among the distinct
\* rows, the traversal among the traversers.
FirstPool(b) ==
    LET pool == IF IsSQL(dialect) THEN Dedup(Hits(b)) ELSE Hits(b)
    IN  Window(FromRows(SortRows(pool, Orders(b))), Nil, bld[b].offset)

\* First returns NotFound when no row matches, else the first matching row.
FirstIsHead ==
    Answered("First") =>
        IF FirstPool(ret.b) = <<>>
        THEN ret.err = ErrNotFound /\ ret.items = <<>>
        ELSE ret.err = "" /\ ret.items = <<Head(FirstPool(ret.b))>>

\* A First that follows a First on the same builder returns the same.
FirstRepeats ==
    (Answered("First") /\ ret'.op = "First" /\ ret'.sent = 1 /\ ret'.drv = ""
        /\ ret'.b = ret.b)
    => (ret'.items = ret.items /\ ret'.err = ret.err)

\* C2: First returns NotFound when zero rows match and otherwise the first
\* matching row in the declared order, and repeated First calls on the
\* same builder and data return the same row.
C2_FirstRow == []FirstIsHead /\ [][FirstRepeats]_vars

\* C2's case: First on a builder ordered by descending id, with two
\* entities to choose from, after an earlier call on that builder.
C2_Witness ==
    /\ Answered("First")
    /\ Orders(ret.b) = <<Desc(FieldID)>>
    /\ Len(DistinctOrdered(ret.b)) = 2
    /\ ret.items = <<[ID |-> 2]>>
    /\ calls = 3

\* What Count returns on builder b now.
CountOf(b) ==
    LET c == Count(bld[b], heap, sels, FALSE) IN <<c.n, c.err>>

\* What Count returns on builder b when its intermediate selector is the
\* one the edge query was built with.
PristineCount(b) ==
    LET S == IF bld[b].sql = 0 THEN sels
             ELSE [sels EXCEPT ![bld[b].sql] = NewSelector("join")]
        c == Count(bld[b], heap, S, FALSE)
    IN  <<c.n, c.err>>

\* A call on one builder leaves the other builder's accumulator unchanged.
CloneFrame ==
    \A b \in DOMAIN bld :
        (ret'.b # b \/ ret'.op = "Clone") => Acc(b)' = Acc(b)

\* What Count returns on a builder depends on that builder's accumulator
\* alone: nothing the calls on the other builder left behind changes it.
CountFromOwnState == \A b \in DOMAIN bld : CountOf(b) = PristineCount(b)

\* A builder and its clone that accumulated the same state count the same.
CloneCountsAgree ==
    ("c" \in DOMAIN bld /\ Acc("q") = Acc("c")) => CountOf("q") = CountOf("c")

\* C3: after c = q.Clone(), calls on c leave q's predicates, order, unique
\* override, limit and offset unchanged, and calls on q leave c's; Count on
\* a builder equals Count on a clone that accumulated the same predicates.
C3_CloneIndependent ==
    [][CloneFrame]_vars /\ [](CountFromOwnState /\ CloneCountsAgree)

\* C3's case: an edge query was cloned with nothing accumulated, q got
\* the predicates P1 and P2 in one Where (the first array allocated), the
\* clone P1 and then P2 in two (the second and the third), and Count on
\* the clone returns the one item Count on q returns.
C3_Witness ==
    /\ "c" \in DOMAIN bld
    /\ calls = MaxCloneCalls
    /\ ret.op = "Count" /\ ret.b = "c" /\ ret.err = "" /\ ret.n = 1
    /\ From("q") = "join"
    /\ heap = << <<IDNEQ(1), IDEQ(2)>>, <<IDNEQ(1)>>, <<IDNEQ(1), IDEQ(2)>> >>
    /\ bld["q"].predicates = [arr |-> 1, len |-> 2]
    /\ bld["c"].predicates = [arr |-> 3, len |-> 2]
    /\ CountOf("q") = <<1, "">>
    /\ CountOf("c") = <<1, "">>

\* C6: Exist returns true exactly when Count on the same builder and data
\* returns a value greater than 0, and false, not an error, when Count
\* returns 0; on both backends, with or without predicates.
C6_ExistIsCountPositive ==
    Answered("Exist") =>
        LET c == Count(bld[ret.b], heap, sels, FALSE)
        IN  /\ (c.err = "" /\ c.n > 0) => (ret.err = "" /\ ret.ok)
            /\ (c.err = "" /\ c.n = 0) => (ret.err = "" /\ ~ret.ok)
            /\ (ret.err = "" /\ ret.ok) => (c.err = "" /\ c.n > 0)
            /\ (ret.err = "" /\ ~ret.ok) => (c.err = "" /\ c.n = 0)

\* C6's case: Exist on a Gremlin builder without predicates whose offset
\* skips every stored item: false, and no error.
C6_Witness ==
    /\ Answered("Exist")
    /\ IsGremlin(dialect)
    /\ Preds(ret.b) = <<>>
    /\ table # <<>>
    /\ bld[ret.b].offset # Nil
    /\ ret.err = "" /\ ~ret.ok

\* C8: a query built with an offset carries, in SQL, that offset and a
\* limit (math.MaxInt32 when the builder has none, else the builder's) and,
\* in Gremlin, one range step from the offset to math.MaxInt32 or to offset
\* plus limit, and no limit step.
C8_OffsetWithLimit ==
    (ret.sent = 1 /\ bld[ret.b].offset # Nil) =>
        LET iq == bld[ret.b]
            o == Deref(iq.offset)
        IN  /\ IsSQL(dialect) =>
                /\ Deref(ret.sel).offset = Ptr(o)
                /\ Deref(ret.sel).limit =
                       IF iq.limit = Nil THEN Ptr(MaxInt32) ELSE iq.limit
            /\ IsGremlin(dialect) =>
                LET t == Deref(ret.trav)
                    hi == IF iq.limit = Nil THEN MaxInt32 ELSE o + Deref(iq.limit)
                IN  /\ \E i \in DOMAIN t : t[i].step = "range"
                    /\ \A i \in DOMAIN t :
                           /\ t[i].step # "limit"
                           /\ t[i].step = "range" => t[i].args = <<o, hi>>

\* C8's case: a SQL query with an offset and no limit was sent.
C8_Witness ==
    /\ ret.sent = 1
    /\ IsSQL(dialect)
    /\ bld[ret.b].offset # Nil
    /\ bld[ret.b].limit = Nil
    /\ Deref(ret.sel).limit = Ptr(MaxInt32)

\* The edges of the graph, as <<node index, edge index>>.
GraphEdges ==
    UNION {{<<i, k>> : k \in DOMAIN nodes[i].edges} : i \in DOMAIN nodes}

EdgeAt(x) == nodes[x[1]].edges[x[2]]

\* The assoc edge the inverse edge e references.
Forward(e) ==
    LET t == nodes[typ(nodes, e.type)] IN t.edges[HasAssoc(t, e.inverse)]

\* The relation kind on the other side of a relation of kind k.
Dual(k) == CASE k = O2M -> M2O [] k = M2O -> O2M [] OTHER -> k

\* C9: after NewGraph succeeds, the Relation of every inverse edge mirrors
\* the Relation of the forward edge it references: same table, same
\* columns, dual kind; also when several inverse edges reference the same
\* forward edge.
C9_InverseMirrorsForward ==
    pc = "done" =>
        \A x \in GraphEdges :
            IsInverse(EdgeAt(x)) =>
                LET e == EdgeAt(x)
                    ref == Forward(e)
                IN  /\ e.rel.table = ref.rel.table
                    /\ e.rel.columns = ref.rel.columns
                    /\ e.rel.type = Dual(ref.rel.type)
                    /\ e.rel.type # Unk

\* C10: after NewGraph succeeds, every non-inverse edge of every node has a
\* Relation kind other than Unknown, a non-empty table name and a non-empty
\* column list.
C10_ForwardEdgesResolved ==
    pc = "done" =>
        \A x \in GraphEdges :
            ~IsInverse(EdgeAt(x)) =>
                /\ EdgeAt(x).rel.type \in {O2O, O2M, M2O, M2M}
                /\ EdgeAt(x).rel.table # ""
                /\ EdgeAt(x).rel.columns # <<>>
                /\ \A i \in DOMAIN EdgeAt(x).rel.columns :
                       EdgeAt(x).rel.columns[i] # ""

\* C10's case: NewGraph succeeded on a graph with a forward edge resolved
\* on its own and a forward edge resolved by its inverse edge.
C10_Witness ==
    /\ pc = "done"
    /\ \E x \in GraphEdges :
        /\ EdgeAt(x).name = "spouse"
        /\ EdgeAt(x).rel = [type |-> O2O, table |-> "users",
                            columns |-> <<"user_spouse_id">>]
    /\ \E x \in GraphEdges :
        /\ EdgeAt(x).name = "owner"
        /\ EdgeAt(x).rel = [type |-> M2O, table |-> "pets",
                            columns |-> <<"owner_id">>]

\* The assoc edges of the target type of the inverse edge x that carry the
\* name x references.
AssocsNamed(x) ==
    LET t == nodes[typ(nodes, EdgeAt(x).type)]
    IN  {k \in DOMAIN t.edges :
            ~IsInverse(t.edges[k]) /\ t.edges[k].name = EdgeAt(x).inverse}

\* In a graph NewGraph built, every inverse edge references an assoc edge
\* that exists on its target type, not both of them are required, and the
\* assoc edge targets the type that declares the inverse edge.
InverseChecksPassed ==
    pc = "done" =>
        \A x \in GraphEdges :
            IsInverse(EdgeAt(x)) =>
                /\ AssocsNamed(x) # {}
                /\ EdgeAt(x).optional \/ Forward(EdgeAt(x)).optional
                /\ Forward(EdgeAt(x)).type = nodes[x[1]].name

\* C11: NewGraph never succeeds when an inverse edge references a name its
\* target type has no assoc edge of, when an inverse edge and its assoc edge
\* are both required, or when the assoc edge does not target the type that
\* declares the inverse edge; so in every graph NewGraph built, the name an
\* inverse edge references matches exactly one assoc edge of its target
\* type.
C11_InverseMatchesOneForward ==
    /\ InverseChecksPassed
    /\ pc = "done" =>
           \A x \in GraphEdges :
               IsInverse(EdgeAt(x)) => Cardinality(AssocsNamed(x)) = 1

\* The schemas that declare an assoc-inverse pair (edge.To(..).From(..))
\* whose target is not the declaring type.
ForeignPairs ==
    {i \in DOMAIN schemas :
        \E k \in DOMAIN schemas[i].edges :
            /\ schemas[i].edges[k].ref # Nil
            /\ schemas[i].edges[k].type # schemas[i].name}

PairError == GraphError("assoc-inverse edge allowed only as o2o relation of the same type")

\* C12: when a schema declares a combined inverse+forward pair whose target
\* type is not the declaring type, NewGraph ends with an error while it adds
\* the edges: it never gets past the edges of that schema, so no graph is
\* built with such a pair.
C12_CombinedPairTargetsOwner ==
    \A i \in ForeignPairs :
        /\ pc \in {"addNode", "addEdges", "failed"}
        /\ pc = "addEdges" => cursor <= i
        /\ pc = "failed" => gerr # ""

\* C12's case: User declares the pair keepers/keeping with target Pet, and
\* NewGraph returned the error of that pair.
C12_Witness ==
    /\ ForeignPairs # {}
    /\ pc = "failed"
    /\ gerr = PairError

\* The edges of the built graph that are one side of a many-to-many relation
\* of a type with itself.
SelfM2M ==
    {x \in GraphEdges :
        /\ EdgeAt(x).rel.type = M2M
        /\ EdgeAt(x).type = nodes[x[1]].name}

\* C13: in a graph NewGraph built, the join table of every many-to-many
\* relation of a type with itself, resolved from an inverse edge or from a
\* self-referencing edge on its own, has two different column names.
C13_SelfJoinColumnsDiffer ==
    pc = "done" =>
        \A x \in SelfM2M :
            /\ Len(EdgeAt(x).rel.columns) = 2
            /\ EdgeAt(x).rel.columns[1] # EdgeAt(x).rel.columns[2]

\* The assoc edge x is the one some inverse edge of the graph resolves.
Referenced(x) ==
    \E y \in GraphEdges :
        /\ IsInverse(EdgeAt(y))
        /\ EdgeAt(y).type = nodes[x[1]].name
        /\ HasAssoc(nodes[x[1]], EdgeAt(y).inverse) = x[2]

\* The assoc edges no inverse edge references: resolve gives them their
\* relation on their own.
Standalone == {x \in GraphEdges : ~IsInverse(EdgeAt(x)) /\ ~Referenced(x)}

\* C14: in a graph NewGraph built, two assoc edges without inverse edge that
\* differ in name or in owner type, and whose relation column is placed on
\* the same table, have different column names.
C14_StandaloneColumnUnique ==
    pc = "done" =>
        \A x, y \in Standalone :
            /\ EdgeAt(x).name # EdgeAt(y).name \/ x[1] # y[1]
            /\ EdgeAt(x).rel.type # M2M
            /\ EdgeAt(y).rel.type # M2M
            /\ EdgeAt(x).rel.table = EdgeAt(y).rel.table
            => EdgeAt(x).rel.columns # EdgeAt(y).rel.columns

\* The permutations of 1..n.
Perms(n) == {p \in [1..n -> 1..n] : \A i, j \in 1..n : i # j => p[i] # p[j]}

\* The lists that hold the declarations of ds in another order, each
\* inverse edge still after the inverse edges and each assoc edge still
\* after the assoc edges it followed: only the places of assoc edges
\* relative to inverse edges change.
Interleavings(ds) ==
    {[i \in DOMAIN ds |-> ds[p[i]]] : p \in
        {q \in Perms(Len(ds)) :
            \A i, j \in DOMAIN ds :
                i < j /\ ds[q[i]].inverse = ds[q[j]].inverse => q[i] < q[j]}}

\* The schema lists with the types of ss in either order and the edges of
\* each type in any interleaving.
Reorderings(ss) ==
    LET lists == {<<[ss[1] EXCEPT !.edges = e1], [ss[2] EXCEPT !.edges = e2]>> :
                     e1 \in Interleavings(ss[1].edges),
                     e2 \in Interleavings(ss[2].edges)}
    IN  lists \cup {<<l[2], l[1]>> : l \in lists}

\* The relation of every edge of the graph ns, by declaring type and edge.
Relations(ns) ==
    UNION {{[node |-> ns[i].name, name |-> ns[i].edges[k].name,
             inverse |-> ns[i].edges[k].inverse,
             unique |-> ns[i].edges[k].unique,
             rel |-> ns[i].edges[k].rel] : k \in DOMAIN ns[i].edges} :
           i \in DOMAIN ns}

\* C15: the graph NewGraph built has, for every assoc edge and the inverse
\* edge that references it, the relations NewGraph gives the two edges
\* when the types are declared in the other order or the assoc edge is
\* listed on the other side of the inverse edge: it makes no difference
\* whether the assoc edge is resolved on its own first and overwritten by
\* the inverse edge, or the inverse edge is resolved first.
C15_ResolveOrderIndependent ==
    pc = "done" =>
        /\ NewGraph(schemas) = [nodes |-> nodes, err |-> ""]
        /\ \A ss \in Reorderings(schemas) :
              /\ NewGraph(ss).err = ""
              /\ Relations(NewGraph(ss).nodes) = Relations(nodes)

\* C15's case: NewGraph resolved the inverse edge fans of User before the
\* assoc edge friends it references, which the other order of the two
\* edges resolves on its own first and overwrites.
C15_Witness ==
    /\ pc = "done"
    /\ schemas[1].name = "User"
    /\ Len(schemas[1].edges) = 2
    /\ schemas[1].edges[1].name = "fans"
    /\ schemas[1].edges[2].name = "friends"
    /\ Len(schemas[2].edges) = 1
    /\ Cardinality(Reorderings(schemas)) = 4
    /\ nodes[1].edges[2].rel = [type |-> M2M, table |-> "user_friends",
                                columns |-> <<"user_id", "fan_id">>]
    /\ nodes[1].edges[1].rel = nodes[1].edges[2].rel

\* The inverse edges of the graph.
InverseEdges == {x \in GraphEdges : IsInverse(EdgeAt(x))}

\* The place of the assoc edge the inverse edge x references.
ForwardOf(x) ==
    LET rt == typ(nodes, EdgeAt(x).type)
    IN  <<rt, HasAssoc(nodes[rt], EdgeAt(x).inverse)>>

\* Edge y is resolved after edge x: NewGraph resolves the types in the
\* order of g.Nodes and resolve the edges of a type in their order.
ResolvedAfter(y, x) == y[1] > x[1] \/ (y[1] = x[1] /\ y[2] > x[2])

\* No inverse edge resolved after x references the assoc edge x references:
\* resolve assigns ref.Rel for every inverse edge, so the assoc edge keeps
\* what the last of them gave it.
LastInverse(x) ==
    \A y \in InverseEdges : ForwardOf(y) = ForwardOf(x) => ~ResolvedAfter(y, x)

\* The inverse edge x has the relation of kind invKind on table tbl with
\* the columns cols, and the assoc edge it references has the relation of
\* kind fwdKind on the same table with the same columns.
PairBoth(x, invKind, fwdKind, tbl, cols) ==
    /\ EdgeAt(x).rel = [type |-> invKind, table |-> tbl, columns |-> cols]
    /\ EdgeAt(ForwardOf(x)).rel =
           [type |-> fwdKind, table |-> tbl, columns |-> cols]

\* The inverse edge x has the relation of kind invKind on table tbl with
\* the columns cols, and so has, with kind fwdKind, the assoc edge it
\* references when x is the last inverse edge that references it.
PairResolved(x, invKind, fwdKind, tbl, cols) ==
    /\ EdgeAt(x).rel = [type |-> invKind, table |-> tbl, columns |-> cols]
    /\ LastInverse(x) =>
           EdgeAt(ForwardOf(x)).rel =
               [type |-> fwdKind, table |-> tbl, columns |-> cols]

\* C16: in a graph NewGraph built, a unique inverse edge that references a
\* unique assoc edge is OneToOne, and so is the assoc edge; the relation
\* column is on the table of the type that declares the inverse edge and is
\* named <snake(inverse edge name)>_id.
C16_BothUniqueOneToOne ==
    pc = "done" =>
        \A x \in InverseEdges :
            EdgeAt(x).unique /\ EdgeAt(ForwardOf(x)).unique =>
                PairBoth(x, O2O, O2O, Table(nodes[x[1]].name),
                         <<snake(EdgeAt(x).name) \o "_id">>)

\* The part of C16 that holds: the unique inverse edge is OneToOne on the
\* column named after it, and so is the unique assoc edge when no inverse
\* edge resolved later references it too.
BothUniqueOneToOneLast ==
    pc = "done" =>
        \A x \in InverseEdges :
            EdgeAt(x).unique /\ EdgeAt(ForwardOf(x)).unique =>
                PairResolved(x, O2O, O2O, Table(nodes[x[1]].name),
                             <<snake(EdgeAt(x).name) \o "_id">>)

\* The inverse edges that are unique and reference an assoc edge that is
\* not unique.
UniqueInverseOfMany ==
    {x \in InverseEdges : EdgeAt(x).unique /\ ~EdgeAt(ForwardOf(x)).unique}

\* C17 as the specification words it: the assoc edge is ManyToOne and the
\* inverse edge OneToMany, with the relation column on the table of the
\* type that declares the assoc edge, named after the inverse edge.
C17_ForwardManyToOne ==
    pc = "done" =>
        \A x \in UniqueInverseOfMany :
            PairBoth(x, O2M, M2O, Table(nodes[ForwardOf(x)[1]].name),
                     <<snake(EdgeAt(x).name) \o "_id">>)

\* C17: in a graph NewGraph built, a unique inverse edge that references an
\* assoc edge that is not unique is ManyToOne, and the assoc edge is
\* OneToMany; the single relation column is on the table of the type that
\* declares the inverse edge and is named <snake(inverse edge name)>_id.
\* When several inverse edges reference the assoc edge, the assoc edge has
\* the relation of the pair it makes with the last of them.
C17_InverseManyToOne ==
    pc = "done" =>
        \A x \in UniqueInverseOfMany :
            PairResolved(x, M2O, O2M, Table(nodes[x[1]].name),
                         <<snake(EdgeAt(x).name) \o "_id">>)

\* C17's case: User declares the unique inverse edge pet of the assoc edge
\* owner of Pet, which is not unique; pet is ManyToOne and owner OneToMany
\* on users.pet_id.
C17_Witness ==
    /\ pc = "done"
    /\ \E x \in UniqueInverseOfMany :
        /\ LastInverse(x)
        /\ nodes[x[1]].name = "User"
        /\ EdgeAt(x).name = "pet"
        /\ EdgeAt(x).rel.type = M2O
        /\ EdgeAt(ForwardOf(x)).name = "owner"
        /\ EdgeAt(ForwardOf(x)).rel =
               [type |-> O2M, table |-> "users", columns |-> <<"pet_id">>]

\* The inverse edges that are not unique and reference a unique assoc edge.
ManyInverseOfUnique ==
    {x \in InverseEdges : ~EdgeAt(x).unique /\ EdgeAt(ForwardOf(x)).unique}

\* C18 as the specification words it: the assoc edge is OneToMany and the
\* inverse edge ManyToOne, with the relation column on the table of the
\* target type of the assoc edge, named after the inverse edge.
C18_ForwardOneToMany ==
    pc = "done" =>
        \A x \in ManyInverseOfUnique :
            PairBoth(x, M2O, O2M, Table(EdgeAt(ForwardOf(x)).type),
                     <<snake(EdgeAt(x).name) \o "_id">>)

\* C18: in a graph NewGraph built, an inverse edge that is not unique and
\* references a unique assoc edge is OneToMany, and the assoc edge is
\* ManyToOne; the single relation column is on the table of the type that
\* declares the assoc edge and is named <snake(assoc edge name)>_id.
\* When several inverse edges reference the assoc edge, the assoc edge has
\* the relation of the pair it makes with the last of them.
C18_InverseOneToMany ==
    pc = "done" =>
        \A x \in ManyInverseOfUnique :
            PairResolved(x, O2M, M2O, Table(nodes[ForwardOf(x)[1]].name),
                         <<snake(EdgeAt(ForwardOf(x)).name) \o "_id">>)

\* C18's case: User declares the inverse edge pets, not unique, of the
\* unique assoc edge owner of Pet; pets is OneToMany and owner ManyToOne on
\* pets.owner_id.
C18_Witness ==
    /\ pc = "done"
    /\ \E x \in ManyInverseOfUnique :
        /\ LastInverse(x)
        /\ nodes[x[1]].name = "User"
        /\ EdgeAt(x).name = "pets"
        /\ EdgeAt(x).rel.type = O2M
        /\ EdgeAt(ForwardOf(x)).name = "owner"
        /\ EdgeAt(ForwardOf(x)).rel =
               [type |-> M2O, table |-> "pets", columns |-> <<"owner_id">>]

\* The inverse edges that are not unique and reference an assoc edge that
\* is not unique.
ManyInverseOfMany ==
    {x \in InverseEdges : ~EdgeAt(x).unique /\ ~EdgeAt(ForwardOf(x)).unique}

\* C19 as the specification words it: both edges are ManyToMany on a join
\* table named <label of the target type>_<inverse edge name>, with one
\* column <label>_id for the type of each side.
C19_JoinTableFromInverseName ==
    pc = "done" =>
        \A x \in ManyInverseOfMany :
            LET e == EdgeAt(x)
                ref == EdgeAt(ForwardOf(x))
            IN  /\ e.rel.type = M2M
                /\ ref.rel.type = M2M
                /\ e.rel.table = Label(ref.type) \o "_" \o e.name
                /\ Range(e.rel.columns) =
                       {Label(nodes[x[1]].name) \o "_id",
                        Label(nodes[ForwardOf(x)[1]].name) \o "_id"}

\* C19: in a graph NewGraph built, an inverse edge that is not unique and
\* references an assoc edge that is not unique is ManyToMany, and so is the
\* assoc edge; they share the join table <label of the type that declares
\* the assoc edge>_<assoc edge name>, whose first column is <label of that
\* type>_id and whose second column is <label of the type that declares
\* the inverse edge>_id, or <singular of the inverse edge name>_id when
\* the two types are the same.  When several inverse edges reference the
\* assoc edge, the assoc edge has the relation of the pair it makes with
\* the last of them.
C19_JoinTableFromForwardName ==
    pc = "done" =>
        \A x \in ManyInverseOfMany :
            LET e == EdgeAt(x)
                ref == EdgeAt(ForwardOf(x))
                fwd == nodes[ForwardOf(x)[1]].name
                inv == nodes[x[1]].name
            IN  PairResolved(x, M2M, M2M, Label(fwd) \o "_" \o ref.name,
                             <<Label(fwd) \o "_id",
                               IF fwd = inv THEN Singularize(e.name) \o "_id"
                               ELSE Label(inv) \o "_id">>)

\* C19's case: the inverse edge pets of User and the assoc edge owner of
\* Pet, neither unique, share the join table pet_owner; the inverse edge
\* followers of User and its assoc edge following share user_following.
C19_Witness ==
    /\ pc = "done"
    /\ \E x \in ManyInverseOfMany :
        /\ LastInverse(x)
        /\ EdgeAt(x).name = "pets"
        /\ EdgeAt(ForwardOf(x)).rel =
               [type |-> M2M, table |-> "pet_owner",
                columns |-> <<"pet_id", "user_id">>]
    /\ \E x \in ManyInverseOfMany :
        /\ LastInverse(x)
        /\ EdgeAt(x).name = "followers"
        /\ EdgeAt(ForwardOf(x)).rel =
               [type |-> M2M, table |-> "user_following",
                columns |-> <<"user_id", "follower_id">>]

\* The relation resolve gives by C20 to the assoc edge x that no inverse
\* edge references.
OwnRelation(x) ==
    LET t == nodes[x[1]]
        e == EdgeAt(x)
        column == <<Label(t.name) \o "_" \o snake(Singularize(e.name)) \o "_id">>
    IN  CASE ~e.unique /\ e.type = t.name ->
                [type |-> M2M, table |-> Label(t.name) \o "_" \o e.name,
                 columns |-> <<Label(t.name) \o "_id",
                               Singularize(e.name) \o "_id">>]
          [] e.unique /\ e.type = t.name ->
                [type |-> O2O, table |-> Table(t.name), columns |-> column]
          [] e.unique /\ e.type # t.name ->
                [type |-> M2O, table |-> Table(t.name), columns |-> column]
          [] OTHER ->
                [type |-> O2M, table |-> Table(e.type), columns |-> column]

\* C20: in a graph NewGraph built, an assoc edge that no inverse edge
\* references has the relation its own flags give: not unique and
\* self-referencing, ManyToMany on a join table; unique and
\* self-referencing, OneToOne on the table of its type; unique and not
\* self-referencing, ManyToOne on the table of its type; not unique and not
\* self-referencing, OneToMany on the table of the target type; and every
\* case but ManyToMany has the single column
\* <owner label>_<singular of the edge name>_id.
C20_StandaloneByFlags ==
    pc = "done" =>
        \A x \in Standalone :
            /\ EdgeAt(x).rel = OwnRelation(x)
            /\ EdgeAt(x).selfRef = (EdgeAt(x).type = nodes[x[1]].name)

\* C20's case: a graph with the four kinds of assoc edges without inverse
\* edge: friends and spouse of User, and a unique and a not unique owner
\* of Pet.
C20_Witness ==
    /\ pc = "done"
    /\ \E x \in Standalone :
        EdgeAt(x).rel = [type |-> M2M, table |-> "user_friends",
                         columns |-> <<"user_id", "friend_id">>]
    /\ \E x \in Standalone :
        EdgeAt(x).rel = [type |-> O2O, table |-> "users",
                         columns |-> <<"user_spouse_id">>]
    /\ \E x \in Standalone :
        EdgeAt(x).rel = [type |-> M2O, table |-> "pets",
                         columns |-> <<"pet_owner_id">>]
    /\ \E x \in Standalone :
        EdgeAt(x).rel = [type |-> O2M, table |-> "users",
                         columns |-> <<"pet_owner_id">>]

\* The tables the calls of Tables returned.
Derived == {derive.outs[i] : i \in DOMAIN derive.outs}

\* The edges of the graph in the order Tables visits them: node order,
\* then edge order.
RECURSIVE EdgesFrom(_, _)
EdgesFrom(ni, ei) ==
    IF ni > Len(nodes) THEN <<>>
    ELSE IF ei > Len(nodes[ni].edges) THEN EdgesFrom(ni + 1, 1)
    ELSE <<<<ni, ei>>>> \o EdgesFrom(ni, ei + 1)

VisitOrder == EdgesFrom(1, 1)

\* The non-inverse edges of the kind ManyToMany, in visiting order.
IsJoinEdge(x) == ~IsInverse(EdgeAt(x)) /\ EdgeAt(x).rel.type = M2M
JoinEdges == SelectSeq(VisitOrder, IsJoinEdge)

\* The names of the columns cs.
Names(cs) == [i \in DOMAIN cs |-> cs[i].name]

\* What Tables returns holds one table per node, with the identifier column
\* as its primary key and a column for every scalar field, and after them
\* one join table per non-inverse ManyToMany edge; a join table has exactly
\* two columns, which are its primary key, and two foreign keys, one per
\* column, each referencing the primary key of the table of the type on
\* its side with on-delete cascade.
TablesPerNodeAndJoin ==
    \A all \in Derived :
        /\ Len(all) = Len(nodes) + Len(JoinEdges)
        /\ \A i \in DOMAIN nodes :
              /\ all[i].name = Table(nodes[i].name)
              /\ all[i].primaryKey = <<IDColumn>>
              /\ \A k \in DOMAIN nodes[i].fields :
                    /\ Cardinality({c \in DOMAIN all[i].columns :
                           all[i].columns[c].name = nodes[i].fields[k].name}) = 1
                    /\ all[i].columns[1 + k] = FieldColumn(nodes[i].fields[k])
        /\ \A j \in DOMAIN JoinEdges :
              LET t == all[Len(nodes) + j]
                  e == EdgeAt(JoinEdges[j])
                  sides == <<nodes[JoinEdges[j][1]].name, e.type>>
              IN  /\ t.name = e.rel.table
                  /\ Len(t.columns) = 2
                  /\ t.primaryKey = t.columns
                  /\ Names(t.columns) = e.rel.columns
                  /\ Len(t.foreignKeys) = 2
                  /\ \A k \in 1..2 :
                        /\ t.foreignKeys[k].columns = <<t.columns[k]>>
                        /\ t.foreignKeys[k].refTable = Table(sides[k])
                        /\ t.foreignKeys[k].refColumns = <<IDColumn>>
                        /\ t.foreignKeys[k].onDelete = Cascade

\* The tables of `all` after the tables of the nodes.
JoinTables(all) == SubSeq(all, Len(nodes) + 1, Len(all))

\* C21: what Tables returns holds exactly one table per node, whose primary
\* key is the identifier column and whose columns include one column per
\* scalar field, plus exactly one join table per ManyToMany relation: the
\* table of every edge of the kind ManyToMany, inverse or not, is there
\* once; each join table has exactly two columns, which are its primary
\* key, and two foreign keys, one per column, each referencing the primary
\* key of the table of its side with on-delete cascade.
C21_TablesPerNodeAndJoin ==
    /\ TablesPerNodeAndJoin
    /\ \A all \in Derived :
          \A x \in GraphEdges :
              EdgeAt(x).rel.type = M2M =>
                  Cardinality({j \in DOMAIN JoinTables(all) :
                      JoinTables(all)[j].name = EdgeAt(x).rel.table}) = 1

\* The non-inverse edges of the kinds OneToOne, OneToMany and ManyToOne, in
\* visiting order, and those of them whose relation names the table tbl.
IsColumnEdge(x) ==
    ~IsInverse(EdgeAt(x)) /\ EdgeAt(x).rel.type \in {O2O, O2M, M2O}
ColumnEdges == SelectSeq(VisitOrder, IsColumnEdge)
ColumnEdgesOn(tbl) ==
    SelectSeq(ColumnEdges, LAMBDA x : EdgeAt(x).rel.table = tbl)

\* The columns of the table of node i after the identifier and the fields.
RelationColumns(all, i) ==
    SubSeq(all[i].columns, 2 + Len(nodes[i].fields), Len(all[i].columns))

\* The tables of the two types the edge x connects.
Sides(x) == {Table(nodes[x[1]].name), Table(EdgeAt(x).type)}

\* C22: in what Tables returns, every non-inverse edge of the kind
\* OneToOne, OneToMany or ManyToOne has exactly one relation column and
\* exactly one foreign key, on the table its Relation names; the foreign
\* key references the primary key of the table on the other side with
\* on-delete set-null.  The tables of the nodes hold no other relation
\* column and no other foreign key, and there is no table but those of the
\* nodes and of the non-inverse ManyToMany edges: an inverse edge adds
\* nothing.
C22_RelationColumnPerEdge ==
    \A all \in Derived :
        /\ Len(all) = Len(nodes) + Len(JoinEdges)
        /\ \A k \in DOMAIN ColumnEdges :
              TableOf(nodes, EdgeAt(ColumnEdges[k]).rel.table) # 0
        /\ \A i \in DOMAIN nodes :
              LET es == ColumnEdgesOn(all[i].name)
                  cs == RelationColumns(all, i)
                  fks == all[i].foreignKeys
              IN  /\ Len(cs) = Len(es)
                  /\ Len(fks) = Len(es)
                  /\ \A k \in DOMAIN es :
                        /\ cs[k].name = EdgeAt(es[k]).rel.columns[1]
                        /\ fks[k].columns = <<cs[k]>>
                        /\ fks[k].onDelete = SetNull
                        /\ fks[k].refColumns = <<IDColumn>>
                        /\ Sides(es[k]) = {all[i].name, fks[k].refTable}

\* C22's case: Tables returned users with the columns of spouse and of
\* owner, the edge of Pet that the inverse edge pet of User resolved, and
\* pets with no relation column.
C22_Witness ==
    \E all \in Derived :
        /\ Len(all) = 2
        /\ all[1].name = "users"
        /\ Names(all[1].columns) =
               <<"id", "age", "name", "last", "nickname", "phone",
                 "user_spouse_id", "pet_id">>
        /\ all[1].columns[5].unique /\ all[1].columns[5].nullable
        /\ all[1].foreignKeys[2].symbol = "users_pets_owner"
        /\ all[1].foreignKeys[2].refTable = "pets"
        /\ all[2].name = "pets"
        /\ Names(all[2].columns) = <<"id", "name">>
        /\ InverseEdges # {}

\* While Tables runs, no table has an index before the loop over the edges
\* has ended, and the loop over the indexes starts with every relation
\* column in place.
IndexesAfterColumns ==
    /\ derive.pc \in {"edges", "indexes"} =>
           \A i \in DOMAIN derive.all : derive.all[i].indexes = <<>>
    /\ derive.pc = "indexes" =>
           \A i \in DOMAIN nodes :
               Len(RelationColumns(derive.all, i))
                   = Len(ColumnEdgesOn(derive.all[i].name))

\* C23: every call of Tables on the built graph returns the same list, the
\* one Tables gives for the graph NewGraph builds from the same schemas in
\* the same order.  The tables of the nodes come first, in the order the
\* schemas declare the nodes, then the join tables in the order their
\* non-inverse edges are visited; a table of a node lists the identifier
\* column, then the fields in declaration order, then the relation columns
\* in the order their edges are visited; and the indexes of a node, in
\* declaration order, are appended after every relation column exists.
C23_TablesDeterministic ==
    /\ IndexesAfterColumns
    /\ \A all \in Derived :
          /\ all = Tables(NewGraph(schemas).nodes).all
          /\ \A i \in DOMAIN nodes :
                /\ nodes[i].name = schemas[i].name
                /\ all[i].name = Table(schemas[i].name)
                /\ Names(all[i].columns) =
                       <<"id">> \o Names(schemas[i].fields)
                       \o [k \in DOMAIN ColumnEdgesOn(all[i].name) |->
                              EdgeAt(ColumnEdgesOn(all[i].name)[k]).rel.columns[1]]
                /\ all[i].indexes = nodes[i].indexes
          /\ Len(all) = Len(nodes) + Len(JoinEdges)
          /\ \A j \in DOMAIN JoinEdges :
                /\ all[Len(nodes) + j].name = EdgeAt(JoinEdges[j]).rel.table
                /\ all[Len(nodes) + j].indexes = <<>>

\* C23's case: Tables was called twice on a graph with a join table, a
\* relation column and an index on it, and returned the same list twice.
C23_Witness ==
    /\ Len(derive.outs) = 2
    /\ derive.outs[1] = derive.outs[2]
    /\ LET all == derive.outs[2]
       IN  /\ Len(all) = 3
           /\ all[1].name = "pets"
           /\ Names(all[1].columns) = <<"id", "name", "pet_owner_id">>
           /\ all[1].indexes =
                  <<[name |-> "pet_owner", columns |-> <<"pet_owner_id">>]>>
           /\ all[2].name = "users"
           /\ Names(all[2].columns) =
                  <<"id", "age", "name", "last", "nickname", "phone",
                    "user_spouse_id">>
           /\ all[3].name = "user_friends"

(* ------------------------------------------------------------------ *)
(* Unsupported dialects.                                               *)
(* ------------------------------------------------------------------ *)

\* The errors the dispatch of ItemQuery, ItemSelect and ItemGroupBy returns
\* for a dialect outside both families.
UnsupportedDialectErrors ==
    {"ent: unsupported dialect", "ItemSelect: unsupported dialect",
     "igb: unsupported dialect"}

\* The operations that run the query.
TerminalOps ==
    {"All", "First", "FirstID", "Only", "OnlyID", "IDs", "Count", "Exist",
     "Select.Scan", "GroupBy.Scan"}

\* C24: when the dialect is neither relational nor Gremlin, every terminal
\* operation (All, First, FirstID, Only, OnlyID, IDs, Count, Exist and the
\* Scan of a Select and of a GroupBy) returns an unsupported-dialect error, returns no
\* result with it, and sends no query to the driver.
C24_UnsupportedDialect ==
    (ret.op \in TerminalOps /\ ~IsSQL(dialect) /\ ~IsGremlin(dialect)) =>
        /\ ret.err \in UnsupportedDialectErrors
        /\ ret.sent = 0
        /\ ret.sel = Nil /\ ret.trav = Nil
        /\ ret.drv = ""
        /\ ret.items = <<>> /\ ret.ids = <<>> /\ ret.n = 0 /\ ~ret.ok

\* A GroupBy scan was answered on a dialect outside both families.
C24_Witness ==
    /\ ~IsSQL(dialect) /\ ~IsGremlin(dialect)
    /\ ret.op = "GroupBy.Scan"
    /\ ret.err = "igb: unsupported dialect"
    /\ ret.sent = 0

(* ------------------------------------------------------------------ *)
(* Driver errors.                                                      *)
(* ------------------------------------------------------------------ *)

\* The last call was a terminal operation whose driver call failed.
DriverFailed == ret.op \in TerminalOps /\ ret.sent = 1 /\ ret.drv # ""

\* The caller got the error of the driver itself, and no result with it.
DriverErrorReturned ==
    /\ ret.err = ret.drv
    /\ ret.items = <<>> /\ ret.ids = <<>> /\ ret.n = 0 /\ ~ret.ok

\* The part of C25 that holds: every terminal operation on Gremlin, and
\* every terminal operation but Exist on SQL, returns the error of the
\* driver itself; Exist on SQL still fails, with an error that is neither
\* NotFound nor NotSingular.
DriverErrorKept ==
    DriverFailed =>
        /\ (IsGremlin(dialect) \/ ret.op # "Exist") => DriverErrorReturned
        /\ ret.err \notin {"", ErrNotFound, ErrNotSingular}
        /\ ret.items = <<>> /\ ret.ids = <<>> /\ ret.n = 0 /\ ~ret.ok

\* C25: when the driver call of a terminal operation fails, the operation
\* returns that same driver error, unmodified, and no result.
C25_DriverErrorUnmodified == DriverFailed => DriverErrorReturned

(* ------------------------------------------------------------------ *)
(* Global unique ids.                                                  *)
(* ------------------------------------------------------------------ *)

\* The ids of table t lie in the range of its type: from index << RangeBits
\* up to, and without, (index + 1) << RangeBits.
InOwnRange(t) ==
    LET id == indexOf(mig.types, t)
    IN  \A k \in DOMAIN mig.ids[t] :
            /\ ~Less(mig.ids[t][k], pkRange(id))
            /\ Less(mig.ids[t][k], pkRange(id + 1))

\* The types have their ranges in the order their tables were created,
\* every id lies in the range of its type, and no two types share an id.
RangesAllocated ==
    /\ mig.types = mig.created
    /\ \A t \in Range(mig.created) : InOwnRange(t)
    /\ \A t, u \in MigTables :
           t # u => Range(mig.ids[t]) \cap Range(mig.ids[u]) = {}

\* A step keeps the range of every table that exists.
RangesKept ==
    \A t \in Range(mig.created) :
        indexOf(mig'.types, t) = indexOf(mig.types, t)

\* C26: with global unique ids, each type has its own range of 2^32
\* ids, given in the order in which the tables were first created; every
\* id created lies in the range of its type, the ranges of two types share
\* no id, and a later migration, in whatever order it lists the tables,
\* keeps the ranges already given.
C26_GlobalIDRanges == []RangesAllocated /\ [][RangesKept]_vars

\* The scenario of TestMySQL: users was created by a first migration, a
\* second one listed groups, pets, users, and an entity of each type was
\* saved afterwards: the user in the first range, the group in the second,
\* the pet in the third.
C26_Witness ==
    /\ mig.runs = 2
    /\ mig.listed = <<"groups", "pets", "users">>
    /\ mig.created = <<"users", "groups", "pets">>
    /\ \A t \in MigTables : mig.ids[t] # <<>>
    /\ idRange(mig.ids["users"][1], Int64(0, 0, 0), Int64(1, 0, 0))
    /\ idRange(mig.ids["groups"][1], Int64(0, LimbSize - 1, LimbSize - 1),
               Int64(2, 0, 0))
    /\ idRange(mig.ids["pets"][1], Int64(1, LimbSize - 1, LimbSize - 1),
               Int64(3, 0, 0))

(* ------------------------------------------------------------------ *)
(* The phases of NewGraph.                                             *)
(* ------------------------------------------------------------------ *)

\* The number of edges addEdges attaches for the declarations ds: one per
\* declaration, two for an edge.To(..).From(..) pair.
RECURSIVE DeclaredEdges(_)
DeclaredEdges(ds) ==
    IF ds = <<>> THEN 0
    ELSE (IF Head(ds).inverse /\ Head(ds).ref # Nil THEN 2 ELSE 1)
         + DeclaredEdges(Tail(ds))

\* What the graph shows of each phase.
AllNodesCreated ==
    /\ Len(nodes) = Len(schemas)
    /\ \A i \in DOMAIN nodes : nodes[i].name = schemas[i].name
SomeEdgeAttached == \E i \in DOMAIN nodes : nodes[i].edges # <<>>
AllEdgesAttached ==
    \A i \in DOMAIN nodes : Len(nodes[i].edges) = DeclaredEdges(schemas[i].edges)
SomeRelationResolved ==
    \E i \in DOMAIN nodes : \E k \in DOMAIN nodes[i].edges :
        nodes[i].edges[k].rel # NoRel
AllRelationsResolved ==
    \A i \in DOMAIN nodes : \A k \in DOMAIN nodes[i].edges :
        nodes[i].edges[k].rel.type # Unk
SomeIndexAttached == \E i \in DOMAIN nodes : nodes[i].indexes # <<>>

\* No phase has left a trace in the graph before the phases ahead of it
\* were over, whether NewGraph is running, has returned or has failed.
PhasesInOrder ==
    /\ SomeEdgeAttached => AllNodesCreated
    /\ SomeRelationResolved => (AllNodesCreated /\ AllEdgesAttached)
    /\ SomeIndexAttached =>
           (AllNodesCreated /\ AllEdgesAttached /\ AllRelationsResolved)
    /\ pc = "addNode" => ~SomeEdgeAttached
    /\ pc = "addEdges" => (AllNodesCreated /\ ~SomeRelationResolved)
    /\ pc = "resolve" =>
           (AllNodesCreated /\ AllEdgesAttached /\ ~SomeIndexAttached)
    /\ pc \in {"addIndexes", "done"} =>
           (AllNodesCreated /\ AllEdgesAttached /\ AllRelationsResolved)
    /\ (pc = "failed") = (gerr # "")

\* A step of NewGraph stays in its loop, goes on to the loop that follows
\* it, or fails; after an error nothing of the graph changes any more.
PhaseSteps ==
    /\ pc' # pc =>
           <<pc, pc'>> \in {<<"addNode", "addEdges">>, <<"addEdges", "resolve">>,
                            <<"resolve", "addIndexes">>, <<"addIndexes", "done">>,
                            <<"addNode", "failed">>, <<"addEdges", "failed">>,
                            <<"resolve", "failed">>, <<"addIndexes", "failed">>}
    /\ gerr # "" => (nodes' = nodes /\ pc' = pc /\ gerr' = gerr)
    /\ pc = "done" => (nodes' = nodes /\ pc' = pc)

\* C27: NewGraph creates every node before it attaches an edge, attaches
\* every edge of every schema before it resolves a relation, and attaches
\* the indexes only when the relations of every node are resolved; the
\* first error ends the run, and no later phase acts on the graph.
C27_PhasesInOrder == []PhasesInOrder /\ [][PhaseSteps]_vars

\* NewGraph returned a graph with two nodes, edges with resolved relations
\* and an index.
C27_Witness ==
    /\ pc = "done"
    /\ Len(nodes) = 2
    /\ SomeEdgeAttached /\ SomeRelationResolved /\ SomeIndexAttached

\* NewGraph failed while it resolved the relations: the edges are attached
\* and no index is.
FailedInResolve ==
    /\ pc = "failed"
    /\ AllNodesCreated /\ SomeEdgeAttached /\ AllEdgesAttached
    /\ ~SomeIndexAttached
    /\ \E i \in DOMAIN schemas : schemas[i].indexes # <<>>

(* ------------------------------------------------------------------ *)
(* One query per call.                                                 *)
(* ------------------------------------------------------------------ *)

\* What the backend answers, on the stored data, to the query the last
\* call sent.
Answer ==
    IF ret.sel # Nil THEN RunSelect(Deref(ret.sel))
    ELSE RunTraversal(Deref(ret.trav))

\* The last call was a terminal operation on a supported backend.
TerminalOnBackend ==
    ret.op \in TerminalOps /\ (IsSQL(dialect) \/ IsGremlin(dialect))

\* The result of the last call is read from the answer to its own query.
FromOwnAnswer ==
    /\ ret.op = "All" =>
           ret.items = [i \in DOMAIN Answer |-> [ID |-> Answer[i].id]]
    /\ ret.op \in {"First", "Only"} =>
           \A k \in DOMAIN ret.items :
               \E i \in DOMAIN Answer : ret.items[k] = [ID |-> Answer[i].id]
    /\ ret.op = "IDs" =>
           ret.ids = IF IsSQL(dialect) THEN ScanSlice(Answer, <<FieldID>>)
                     ELSE Answer
    /\ ret.op = "Select.Scan" =>
           ret.ids = IF IsSQL(dialect) THEN ScanSlice(Answer, held.fields)
                     ELSE Answer
    /\ ret.op = "GroupBy.Scan" =>
           ret.ids = IF IsSQL(dialect) \/ Len(held.fields \o held.fns) = 1
                     THEN ScanSlice(Answer, held.fields \o held.fns)
                     ELSE Answer
    /\ ret.op \in {"FirstID", "OnlyID"} =>
           \A k \in DOMAIN ret.ids :
               \E i \in DOMAIN Answer :
                   ret.ids[k] = IF IsSQL(dialect) THEN Answer[i][FieldID]
                                ELSE Answer[i]
    /\ (ret.op = "Count" /\ ret.err = "") =>
           ret.n = IF IsSQL(dialect) THEN Answer[1].count ELSE Answer[1]
    /\ (ret.op = "Exist" /\ ret.err = "") =>
           ret.ok = IF IsSQL(dialect) THEN Answer[1].count > 0 ELSE Answer[1]

\* C28: on a supported backend every terminal operation sends exactly one
\* query per call, a selector on SQL and a traversal on Gremlin; when the
\* driver fails, the call returns the failure without a second query and
\* without a result, and when it answers, the result is read from the
\* answer to the query of this call.
C28_OneQueryPerCall ==
    TerminalOnBackend =>
        /\ ret.sent = 1
        /\ IsSQL(dialect) => (ret.sel # Nil /\ ret.trav = Nil)
        /\ IsGremlin(dialect) => (ret.trav # Nil /\ ret.sel = Nil)
        /\ ret.drv # "" =>
               /\ ret.err # ""
               /\ ret.items = <<>> /\ ret.ids = <<>> /\ ret.n = 0 /\ ~ret.ok
        /\ ret.drv = "" => FromOwnAnswer

\* The third call on the builder is an All whose query failed in the
\* driver, after two calls were made on it.
C28_Witness ==
    /\ TerminalOnBackend
    /\ ret.op = "All"
    /\ calls = 3
    /\ ret.drv = ErrDriver
    /\ ret.sent = 1

(* ------------------------------------------------------------------ *)
(* Terminal operations and the builder's accumulator.                  *)
(* ------------------------------------------------------------------ *)

\* The accumulator of builder b after the step.
AccAfter(b) ==
    [predicates |-> Elems(heap', bld'[b].predicates),
     order |-> Elems(heap', bld'[b].order),
     unique |-> Elems(heap', bld'[b].unique),
     limit |-> bld'[b].limit, offset |-> bld'[b].offset]

\* The step is a call of a terminal operation.
TerminalStep == calls' = calls + 1 /\ ret'.op \in TerminalOps

\* The part of C29 that holds: All, IDs, Count and Exist leave the
\* accumulator of every builder as it was, and First, FirstID, Only and
\* OnlyID leave all of it but the limit.
AccKeptButLimit ==
    TerminalStep =>
        \A b \in DOMAIN bld :
            /\ [AccAfter(b) EXCEPT !.limit = Nil] = [Acc(b) EXCEPT !.limit = Nil]
            /\ ret'.op \in {"All", "IDs", "Count", "Exist"} =>
                   AccAfter(b) = Acc(b)
TerminalKeepsAllButLimit == [][AccKeptButLimit]_vars

\* An id scan (IDs, FirstID, OnlyID) of a builder that has an intermediate
\* selector leaves the alias item_view on that selector: the queries the
\* builder sends from then on name item_view.id and are rejected.
ScanLeavesAlias ==
    \A b \in DOMAIN bld :
        (/\ ret.b = b /\ ret.op \in {"IDs", "FirstID", "OnlyID"}
         /\ IsSQL(dialect) /\ bld[b].sql # 0 /\ ret.sent = 1)
        => /\ sels[bld[b].sql].as = ItemView
           /\ All(bld[b], heap, sels, FALSE).err = ErrDriver
           /\ Count(bld[b], heap, sels, FALSE).err = ErrDriver
           /\ IDs(bld[b], heap, sels, FALSE).err = ErrDriver

\* C29: a terminal operation leaves the accumulated state of the builder
\* (limit, offset, order list, predicate list, unique override) unchanged.
C29_TerminalKeepsBuilder ==
    [][TerminalStep => \A b \in DOMAIN bld : AccAfter(b) = Acc(b)]_vars

(* ------------------------------------------------------------------ *)
(* Id-returning and entity-returning operations.                       *)
(* ------------------------------------------------------------------ *)

\* The ids of the items of a result.
ItemIDs(r) == [k \in DOMAIN r.items |-> r.items[k].ID]

\* On builder b as it stands, with a driver that answers: the operation
\* that returns ids fails as the one that returns entities does, and
\* returns the ids of its entities, in the same order.
IDsAgree(b) ==
    LET all == All(bld[b], heap, sels, FALSE)
        ids == IDs(bld[b], heap, sels, FALSE)
        first == First(bld[b], heap, sels, FALSE)
        firstID == FirstID(bld[b], heap, sels, FALSE)
        only == Only(bld[b], heap, sels, FALSE)
        onlyID == OnlyID(bld[b], heap, sels, FALSE)
    IN  /\ ids.err = all.err /\ ids.ids = ItemIDs(all)
        /\ firstID.err = first.err /\ firstID.ids = ItemIDs(first)
        /\ onlyID.err = only.err /\ onlyID.ids = ItemIDs(only)

\* The part of C30 that holds: the operations agree on Gremlin, and on SQL
\* when the rows of the intermediate query repeat no entity.
IDsAgreeWithoutRepeats ==
    \A b \in DOMAIN bld :
        (IsGremlin(dialect) \/ (IsSQL(dialect) /\ NoDuplicates(joined)))
        => IDsAgree(b)

\* C30: on the same builder state and data, on a supported backend, OnlyID
\* succeeds or fails as Only does and returns the id of its entity,
\* FirstID returns the id of the entity First returns, and IDs returns the
\* ids of the entities All returns, in the same order.
C30_IDsAgreeWithEntities ==
    \A b \in DOMAIN bld :
        (IsSQL(dialect) \/ IsGremlin(dialect)) => IDsAgree(b)

====
